---- MODULE Spec2Model ----
(***************************************************************************)
(* A model of the LLM Distiller processing pipeline: the question queue,   *)
(* the processing engine's worker pool and monitoring loop, the provider   *)
(* manager's failover, and the question worker with its store.             *)
(***************************************************************************)
EXTENDS Integers, Sequences, FiniteSets, Bags, TLC

\* ------------------------------------------------------------------ bounds
NumQuestions == 2
MaxObjs == 2
MaxRetries == 1
BatchSize == 2

QIds == 1..NumQuestions
Workers == 1..BatchSize

NoneVal == "None"

\* ProcessingStatus (processing/models.py)
PENDING == "pending"
PROCESSING == "processing"
COMPLETED == "completed"
FAILED == "failed"
ProcessingStatus == {PENDING, PROCESSING, COMPLETED, FAILED}

VARIABLES
    objs,          \* the QuestionTask objects created so far, by object number
    q_tasks,       \* QuestionQueue._tasks: question_id -> object number (0: absent)
    q_queue,       \* QuestionQueue._queue: the asyncio.Queue, a FIFO of objects
    q_processing,  \* QuestionQueue._processing
    q_completed,   \* QuestionQueue._completed
    q_failed,      \* QuestionQueue._failed
    q_ret,         \* the value the last retry_task call returned
    w_pc,          \* position of each caller of get_next_task / each pool worker
    w_task,        \* the task object a caller holds (0: none)
    cfg_max_retries, \* settings.processing.max_retries
    cfg_batch_size, \* settings.processing.batch_size: the width of the pool
    e_running,     \* ProcessingEngine._running
    mon_pc,        \* position of process_questions / _run_processing
    e_warnings,    \* ProcessingResult.warnings
    e_errors,      \* ProcessingResult.errors
    e_success,     \* ProcessingResult.success
    e_stop,        \* stop_processing was called during the run
    e_attempts,    \* per question: calls of process_question in this run
    e_outcomes,    \* per question: the outcomes of those calls
    e_stats,       \* ProcessingResult.stats: the counters of the run
    m_providers,   \* LLMProviderManager.providers: the names, in registration order
    cfg_strategy,  \* settings.processing.failover_strategy
    cfg_failover_on_errors, \* settings.processing.failover_on_errors
    m_call,        \* the last generate_response_with_failover call and its outcome
    db_responses,  \* the responses table: a bag of rows
    db_invalid,    \* the invalid_responses table: a bag of rows
    cfg_validate,  \* QuestionWorker.validate_responses
    wk_call,       \* the last process_question call and its outcome
    wk_calls,      \* number of process_question calls made so far
    rl_minute,     \* RateLimiter.request_history["minute"]
    rl_hour,       \* RateLimiter.request_history["hour"]
    rl_now,        \* time.time(), in whole seconds
    rl_ticked,     \* the clock moved since the last call on the limiter
    rl_hist,       \* the acquire() calls made so far: time and value returned
    cfg_rpm,       \* RateLimitConfig.requests_per_minute
    cfg_rph,       \* RateLimitConfig.requests_per_hour
    b_valid,       \* ResponseBatcher.pending_valid_responses
    b_invalid,     \* ResponseBatcher.pending_invalid_responses
    b_batch_size,  \* ResponseBatcher.batch_size
    b_rows_valid,  \* rows the batcher inserted into responses: a bag of items
    b_rows_invalid, \* rows the batcher inserted into invalid_responses
    b_n,           \* number of items handed to the batcher so far
    b_ret,         \* the last call on the batcher and how it ended
    i_store,       \* the questions table as the importer sees it: json_id per row
    i_result,      \* the last importer call and the ImportResult it returned
    i_calls,       \* number of importer calls made so far
    ld_questions,  \* the questions table with, per row, its number of responses
    ld_call,       \* the last _load_questions call and the tasks built from it
    mg_schema,     \* the SQLite file: per table, whether it exists and its columns
    mg_hist,       \* the migration runs made so far
    rt_call,       \* the last execute_with_retry call: arguments, scopes, result
    m_limiters,    \* LLMProviderManager.rate_limiters: the names that have one
    m_reg          \* the last add_provider / remove_provider call and its value

qvars == <<objs, q_tasks, q_queue, q_processing, q_completed, q_failed, q_ret>>
wvars == <<w_pc, w_task>>
mvars == <<m_providers, cfg_strategy, cfg_failover_on_errors, m_call>>
dvars == <<db_responses, db_invalid, cfg_validate, wk_call, wk_calls>>
\* what no step of the queue or of the engine's loops changes
lvars == <<rl_minute, rl_hour, rl_now, rl_ticked, rl_hist, cfg_rpm, cfg_rph>>
bvars == <<b_valid, b_invalid, b_batch_size, b_rows_valid, b_rows_invalid,
           b_n, b_ret>>
\* the settings and components that are set up once and then left alone by
\* the queue, the engine, the manager, the worker and the limiter
ivars == <<i_store, i_result, i_calls>>
ldvars == <<ld_questions, ld_call>>
mgvars == <<mg_schema, mg_hist>>
rtvars == <<rt_call>>
regvars == <<m_limiters, m_reg>>
kvars == <<cfg_max_retries, cfg_batch_size, bvars, ivars, ldvars, mgvars, rtvars,
           regvars>>
cvars == <<kvars, mvars, dvars, lvars>>
\* the state of one engine run
rvars == <<e_running, mon_pc, e_warnings, e_errors, e_success, e_stop, e_attempts,
           e_outcomes, e_stats>>
evars == <<cvars, rvars>>
vars == <<qvars, wvars, evars>>

\* QuestionTask as the queue sees it
QuestionTask(qid, st, mr, em) ==
    [question_id |-> qid, status |-> st, retry_count |-> 0,
     max_retries |-> mr, error_message |-> em]

TaskInputs ==
    { QuestionTask(qid, st, mr, em) :
        qid \in QIds, st \in {PENDING, FAILED}, mr \in 0..MaxRetries,
        em \in {NoneVal, "err"} }

\* --------------------------------------------------------- QuestionQueue
\* QuestionQueue.__init__
QueueInit ==
    /\ objs = <<>>
    /\ q_tasks = [q \in QIds |-> 0]
    /\ q_queue = <<>>
    /\ q_processing = {}
    /\ q_completed = {}
    /\ q_failed = {}
    /\ q_ret = [op |-> "none", id |-> 0, val |-> FALSE]

\* the body of add_task / one iteration of add_tasks, on a state record
PutTask(s, t) ==
    LET o == Len(s.objs) + 1 IN
    [objs  |-> Append(s.objs, t),
     tasks |-> [s.tasks EXCEPT ![t.question_id] = o],
     queue |-> IF t.status = PENDING THEN Append(s.queue, o) ELSE s.queue]

RECURSIVE PutTasks(_, _)
PutTasks(s, ts) ==
    IF ts = <<>> THEN s ELSE PutTasks(PutTask(s, Head(ts)), Tail(ts))

add_tasks(ts) ==
    /\ LET s == PutTasks([objs |-> objs, tasks |-> q_tasks, queue |-> q_queue], ts) IN
        /\ objs' = s.objs
        /\ q_tasks' = s.tasks
        /\ q_queue' = s.queue
    /\ UNCHANGED <<q_processing, q_completed, q_failed, q_ret>>

add_task(t) == add_tasks(<<t>>)

\* get_next_task, first half: the item leaves the asyncio.Queue inside wait_for
get_next_task_dequeue(w) ==
    /\ w_pc[w] = "idle"
    /\ q_queue # <<>>
    /\ w_task' = [w_task EXCEPT ![w] = Head(q_queue)]
    /\ q_queue' = Tail(q_queue)
    /\ w_pc' = [w_pc EXCEPT ![w] = "dequeued"]
    /\ UNCHANGED <<objs, q_tasks, q_processing, q_completed, q_failed, q_ret>>

\* get_next_task, second half: under the lock, the task is recorded as PROCESSING
get_next_task_register(w, next) ==
    /\ w_pc[w] = "dequeued"
    /\ LET o == w_task[w] IN
        /\ objs' = [objs EXCEPT ![o].status = PROCESSING]
        /\ q_processing' = q_processing \cup {objs[o].question_id}
    /\ w_pc' = [w_pc EXCEPT ![w] = next]
    /\ UNCHANGED <<q_tasks, q_queue, q_completed, q_failed, q_ret>>

mark_completed(question_id, success) ==
    /\ q_processing' = q_processing \ {question_id}
    /\ IF q_tasks[question_id] # 0
       THEN LET o == q_tasks[question_id] IN
            IF success
            THEN /\ objs' = [objs EXCEPT ![o].status = COMPLETED]
                 /\ q_completed' = q_completed \cup {question_id}
                 /\ UNCHANGED q_failed
            ELSE /\ objs' = [objs EXCEPT ![o].status = FAILED]
                 /\ q_failed' = q_failed \cup {question_id}
                 /\ UNCHANGED q_completed
       ELSE UNCHANGED <<objs, q_completed, q_failed>>
    /\ UNCHANGED <<q_tasks, q_queue, q_ret>>

\* variant: the retry test off by one
retry_allowed_inclusive(t) == t.retry_count <= t.max_retries

\* retry_task's test for remaining retries
retry_allowed(t) == t.retry_count < t.max_retries

\* retry_task on a state record [objs, failed, queue]; val is the value returned
retry_task_on(s, question_id) ==
    IF q_tasks[question_id] = 0
    THEN [objs |-> s.objs, failed |-> s.failed, queue |-> s.queue, val |-> FALSE]
    ELSE LET o == q_tasks[question_id] IN
         IF retry_allowed(s.objs[o])
         THEN [objs   |-> [s.objs EXCEPT ![o].retry_count = @ + 1,
                                         ![o].status = PENDING,
                                         ![o].error_message = NoneVal],
               failed |-> s.failed \ {question_id},
               queue  |-> Append(s.queue, o),
               val    |-> TRUE]
         ELSE [objs |-> s.objs, failed |-> s.failed, queue |-> s.queue,
               val |-> FALSE]

retry_task(question_id) ==
    LET r == retry_task_on([objs |-> objs, failed |-> q_failed, queue |-> q_queue],
                           question_id) IN
    /\ q_ret' = [op |-> "retry_task", id |-> question_id, val |-> r.val]
    /\ objs' = r.objs
    /\ q_failed' = r.failed
    /\ q_queue' = r.queue
    /\ UNCHANGED <<q_tasks, q_processing, q_completed>>

\* QuestionQueue.clear
clear ==
    /\ q_queue' = <<>>
    /\ q_processing' = {}
    /\ q_completed' = {}
    /\ q_failed' = {}
    /\ q_tasks' = [q \in QIds |-> 0]
    /\ UNCHANGED <<objs, q_ret>>

\* QuestionQueue.is_empty
\* variant: only the underlying queue is looked at
is_empty_queue_only == q_queue = <<>>

is_empty == q_queue = <<>> /\ q_processing = {}

\* ---------------------------------------------------- LLMProviderManager
MaxProviders == 2

\* the keys of settings.llm_providers, in configuration order
AllProviders == <<"p1", "p2", "p3", "p4">>

Strategies == {"none", "preferred_only", "rate_limit_only", "all"}

\* Python truthiness of an Optional[str]
Truthy(x) == x # NoneVal /\ x # ""

Range(s) == {s[i] : i \in 1..Len(s)}

\* An exception is modelled by the set of the keywords its lower-cased
\* message contains; the fixed messages are one-word sets.
RATE_WORDS == {"rate limit", "too many requests", "rate_limit"}
TIMEOUT_WORDS == {"timeout", "connection", "network"}
AUTH_WORDS == {"authentication", "unauthorized", "forbidden", "api key"}
NO_PROVIDERS_MSG == {"No providers available for strategy"}
ALL_FAILED_MSG == {"All providers failed"}
KEY_ERROR_MSG == {"KeyError"}

\* variant: every error is general
classify_error_general(error) == "general"

classify_error(error) ==
    IF error \cap RATE_WORDS # {} THEN "rate_limit"
    ELSE IF error \cap TIMEOUT_WORDS # {} THEN "timeout"
    ELSE IF error \cap AUTH_WORDS # {} THEN "auth"
    ELSE "general"

\* what a provider and its rate limiter do when called: acquire() returns
\* acq; generate_response returns a response (ok) or raises msg
Behaviours ==
    { [acq |-> a, ok |-> TRUE, msg |-> {}] : a \in BOOLEAN } \cup
    { [acq |-> a, ok |-> FALSE, msg |-> m] :
        a \in BOOLEAN,
        m \in { {"too many requests", "timeout"}, {"network"}, {"forbidden"}, {} } }

\* a result carries a response text exactly when a provider answered
WorkerResult(success, provider_name, error_type, error_message) ==
    [success |-> success, provider_name |-> provider_name,
     response_text |-> IF success THEN "answer" ELSE NoneVal,
     error_type |-> error_type, error_message |-> error_message]

\* variant: the preferred provider is used whenever it is given
preferred_given(preferred_provider) == Truthy(preferred_provider)

\* the preferred provider is used only when it is given and registered
preferred_known(preferred_provider) ==
    Truthy(preferred_provider) /\ preferred_provider \in Range(m_providers)

\* for provider_name in self.providers: if provider_name not in providers_to_try
OtherProviders(providers_to_try) ==
    SelectSeq(m_providers, LAMBDA p : p \notin Range(providers_to_try))

\* variant: strategy all takes the providers as registered
get_providers_for_strategy_all_keys(strategy, preferred_provider) ==
    LET pref == IF preferred_known(preferred_provider)
                THEN <<preferred_provider>> ELSE <<>> IN
    IF strategy = "none" THEN pref
    ELSE IF strategy = "preferred_only"
    THEN IF preferred_known(preferred_provider) THEN pref ELSE m_providers
    ELSE IF strategy = "rate_limit_only" THEN pref \o OtherProviders(pref)
    ELSE IF strategy = "all" THEN m_providers
    ELSE pref

\* variant: an unknown strategy is treated as all
get_providers_for_strategy_default_all(strategy, preferred_provider) ==
    LET pref == IF preferred_known(preferred_provider)
                THEN <<preferred_provider>> ELSE <<>> IN
    IF strategy = "none" THEN pref
    ELSE IF strategy = "preferred_only"
    THEN IF preferred_known(preferred_provider) THEN pref ELSE m_providers
    ELSE pref \o OtherProviders(pref)

get_providers_for_strategy(strategy, preferred_provider) ==
    LET pref == IF preferred_known(preferred_provider)
                THEN <<preferred_provider>> ELSE <<>> IN
    IF strategy = "none" THEN pref
    ELSE IF strategy = "preferred_only"
    THEN IF preferred_known(preferred_provider) THEN pref ELSE m_providers
    ELSE IF strategy = "rate_limit_only" THEN pref \o OtherProviders(pref)
    ELSE IF strategy = "all" THEN pref \o OtherProviders(pref)
    ELSE pref

\* variant: rate_limit_only fails over on rate_limit, whatever is configured
should_failover_rate_limit_literal(strategy, error_type, attempt, total_attempts) ==
    IF attempt >= total_attempts - 1 THEN FALSE
    ELSE IF strategy = "rate_limit_only" THEN error_type = "rate_limit"
    ELSE strategy = "all"

should_failover(strategy, error_type, attempt, total_attempts) ==
    IF attempt >= total_attempts - 1 THEN FALSE
    ELSE IF strategy = "none" THEN FALSE
    ELSE IF strategy = "preferred_only" THEN FALSE
    ELSE IF strategy = "rate_limit_only" THEN error_type \in cfg_failover_on_errors
    ELSE IF strategy = "all" THEN TRUE
    ELSE FALSE

\* variant: generate_response is called only when acquire() admitted the call
attempt_calls_gated(provider_name, b) ==
    IF b.acq
    THEN <<[provider |-> provider_name, op |-> "acquire", ok |-> b.acq],
           [provider |-> provider_name, op |-> "generate", ok |-> b.ok]>>
    ELSE <<[provider |-> provider_name, op |-> "acquire", ok |-> b.acq]>>

\* the calls one attempt makes: await rate_limiter.acquire(), its result
\* dropped, then await provider.generate_response(...)
attempt_calls(provider_name, b) ==
    <<[provider |-> provider_name, op |-> "acquire", ok |-> b.acq],
      [provider |-> provider_name, op |-> "generate", ok |-> b.ok]>>

\* the for loop of generate_response_with_failover from index i (0-based) on;
\* log collects the calls made on rate limiters and providers
RECURSIVE failover_loop(_, _, _, _, _, _, _)
failover_loop(strategy, preferred_provider, providers_to_try, i, env, log, last) ==
    LET failed == [raised |-> FALSE,
                   result |-> WorkerResult(FALSE,
                                 IF Truthy(preferred_provider)
                                 THEN preferred_provider ELSE "unknown",
                                 last.error_type, last.error),
                   log |-> log]
    IN
    IF i >= Len(providers_to_try) THEN failed
    ELSE LET provider_name == providers_to_try[i + 1] IN
         IF provider_name \notin Range(m_providers)
         THEN [raised |-> TRUE,
               result |-> WorkerResult(FALSE, provider_name, "KeyError", KEY_ERROR_MSG),
               log |-> log]
         ELSE LET b == env[provider_name]
                  log2 == log \o attempt_calls(provider_name, b)
              IN IF b.ok
                 THEN [raised |-> FALSE,
                       result |-> WorkerResult(TRUE, provider_name, NoneVal, {}),
                       log |-> log2]
                 ELSE LET et == classify_error(b.msg)
                          l == [error |-> b.msg, error_type |-> et] IN
                      IF should_failover(strategy, et, i, Len(providers_to_try))
                      THEN failover_loop(strategy, preferred_provider,
                                         providers_to_try, i + 1, env, log2, l)
                      ELSE [raised |-> FALSE,
                            result |-> WorkerResult(FALSE,
                                          IF Truthy(preferred_provider)
                                          THEN preferred_provider ELSE "unknown",
                                          et, b.msg),
                            log |-> log2]

generate_response_with_failover(preferred_provider, failover_strategy, env) ==
    LET strategy == IF Truthy(failover_strategy)
                    THEN failover_strategy ELSE cfg_strategy
        providers_to_try == get_providers_for_strategy(strategy, preferred_provider)
    IN IF providers_to_try = <<>>
       THEN [raised |-> FALSE,
             result |-> WorkerResult(FALSE,
                           IF Truthy(preferred_provider)
                           THEN preferred_provider ELSE "unknown",
                           "configuration_error", NO_PROVIDERS_MSG),
             log |-> <<>>]
       ELSE failover_loop(strategy, preferred_provider, providers_to_try, 0, env,
                          <<>>, [error |-> ALL_FAILED_MSG,
                                 error_type |-> "provider_error"])

\* no call made yet
NoCall ==
    [op |-> "none", preferred |-> NoneVal, override |-> NoneVal,
     env |-> [p \in {} |-> 0],
     out |-> [raised |-> FALSE,
              result |-> WorkerResult(FALSE, NoneVal, NoneVal, {}),
              log |-> <<>>]]

\* ProcessingConfig's failover fields, which manager.py reads and the settings
\* module does not declare: a strategy name and a set of error kinds
FailoverStrategyValues == Strategies \cup {"bogus"}
FailoverOnErrorsValues == {{}, {"rate_limit"}, {"rate_limit", "timeout"}}
DefaultFailoverConfig ==
    /\ cfg_strategy = "all"
    /\ cfg_failover_on_errors = {"rate_limit"}

\* a manager with the default configuration and no provider initialised
ManagerIdle ==
    /\ m_providers = <<>>
    /\ DefaultFailoverConfig
    /\ m_call = NoCall

\* ---------------------------------- the manager's provider registry
\* the provider types of provider_classes, and one that is not among them
ProviderTypes == {"openai", "unknown"}

\* no call on the registry yet
NoReg == [op |-> "none", name |-> NoneVal, before |-> <<>>, ret |-> FALSE]

\* every provider that was initialised has a rate limiter
RegistryIdle ==
    /\ m_limiters = Range(m_providers)
    /\ m_reg = NoReg

\* self.providers[name] = provider: a new key goes to the end
dict_set(keys, name) == IF name \in Range(keys) THEN keys ELSE Append(keys, name)

\* del self.providers[name]
dict_del(keys, name) == SelectSeq(keys, LAMBDA k : k # name)

\* add_provider: False for an unknown type and when the provider's
\* constructor raises
add_provider(name, type, ctor_ok) ==
    IF type = "openai" /\ ctor_ok
    THEN [providers |-> dict_set(m_providers, name),
          limiters |-> m_limiters \cup {name}, ret |-> TRUE]
    ELSE [providers |-> m_providers, limiters |-> m_limiters, ret |-> FALSE]

\* remove_provider: the value returned is "name in self.providers", read
\* after the deletion
remove_provider(name) ==
    LET providers == IF name \in Range(m_providers)
                     THEN dict_del(m_providers, name) ELSE m_providers
        limiters == IF name \in m_limiters
                    THEN m_limiters \ {name} ELSE m_limiters
    IN [providers |-> providers, limiters |-> limiters,
        ret |-> name \in Range(providers)]

\* ------------------------------------------- QuestionWorker and its store
MaxCalls == 2

\* answer_schema: absent, a parseable JSON schema, text that is not JSON
Schemas == {NoneVal, "schema", "not json"}

DB_ERROR_MSG == {"database error"}
SCHEMA_FAILED_MSG == {"Schema validation failed"}

\* the key columns of a responses row
ResponseRow(question_id, provider_name) ==
    [question_id |-> question_id, provider_name |-> provider_name]

\* variant: the error type is not stored
InvalidResponseRow_untyped(question_id, error_type) ==
    [question_id |-> question_id, error_type |-> "unknown"]

\* the key columns of an invalid_responses row
InvalidResponseRow(question_id, error_type) ==
    [question_id |-> question_id, error_type |-> error_type]

\* variant: a responses table without the constraint
unique_unchecked(rows, row) == TRUE

\* UniqueConstraint("question_id", "provider_name") on responses
uq_question_provider(rows, row) == ~BagIn(row, rows)

\* _store_valid_response: session.add inside async_session_scope, which
\* commits on exit, or rolls back and re-raises
store_valid_response(rows, question_id, result, db_error) ==
    LET row == ResponseRow(question_id, result.provider_name) IN
    IF db_error \/ ~uq_question_provider(rows, row)
    THEN [ok |-> FALSE, rows |-> rows]
    ELSE [ok |-> TRUE, rows |-> rows (+) SetToBag({row})]

\* variant: the scope ends without an error and without a row
store_invalid_response_dropped(rows, question_id, result, db_error) ==
    [ok |-> TRUE, rows |-> rows]

\* _store_invalid_response
store_invalid_response(rows, question_id, result, db_error) ==
    LET row == InvalidResponseRow(question_id,
                                  IF Truthy(result.error_type)
                                  THEN result.error_type ELSE "unknown") IN
    IF db_error
    THEN [ok |-> FALSE, rows |-> rows]
    ELSE [ok |-> TRUE, rows |-> rows (+) SetToBag({row})]

\* variant: every response passes
validate_response_lenient(conforms, schema_json) == {}

\* _validate_response: the list of validation errors, empty for None
validate_response(conforms, schema_json) ==
    IF schema_json = "not json" THEN {"Invalid JSON schema"}
    ELSE IF conforms THEN {}
    ELSE {"schema violation"}

\* process_question on the current store; db_error1 and db_error2 say whether
\* the first and the second database transaction of the call fail
process_question(task, env, conforms, db_error1, db_error2) ==
    LET g == generate_response_with_failover(task.provider_name, NoneVal, env)
        \* the except clause: build a processing_error result and store it
        handler(msg) ==
            LET error_result == WorkerResult(FALSE,
                                    IF Truthy(task.provider_name)
                                    THEN task.provider_name ELSE "unknown",
                                    "processing_error", msg)
                st == store_invalid_response(db_invalid, task.question_id,
                                             error_result, db_error2)
            IN [raised |-> ~st.ok, result |-> error_result, gen |-> g.result,
                validated |-> FALSE,
                responses |-> db_responses, invalid |-> st.rows]
        \* store a failed result and return it
        invalid(result, validated) ==
            LET st == store_invalid_response(db_invalid, task.question_id,
                                             result, db_error1)
            IN IF st.ok
               THEN [raised |-> FALSE, result |-> result, gen |-> g.result,
                     validated |-> validated,
                     responses |-> db_responses, invalid |-> st.rows]
               ELSE [handler(DB_ERROR_MSG) EXCEPT !.validated = validated]
        valid(validated) ==
            LET st == store_valid_response(db_responses, task.question_id,
                                           g.result, db_error1)
            IN IF st.ok
               THEN [raised |-> FALSE, result |-> g.result, gen |-> g.result,
                     validated |-> validated,
                     responses |-> st.rows, invalid |-> db_invalid]
               ELSE [handler(DB_ERROR_MSG) EXCEPT !.validated = validated]
    IN IF g.raised THEN handler(g.result.error_message)
       ELSE IF ~g.result.success THEN invalid(g.result, FALSE)
       ELSE IF cfg_validate /\ Truthy(task.answer_schema)
       THEN IF validate_response(conforms, task.answer_schema) # {}
            THEN invalid([WorkerResult(FALSE, g.result.provider_name,
                                       "schema_validation", SCHEMA_FAILED_MSG)
                            EXCEPT !.response_text = g.result.response_text],
                         TRUE)
            ELSE valid(TRUE)
       ELSE valid(FALSE)

NoTask == [question_id |-> 0, provider_name |-> NoneVal, answer_schema |-> NoneVal]

NoWorkerCall ==
    [op |-> "none", task |-> NoTask, conforms |-> FALSE,
     db_error1 |-> FALSE, db_error2 |-> FALSE,
     out |-> [raised |-> FALSE, result |-> WorkerResult(FALSE, NoneVal, NoneVal, {}),
              gen |-> WorkerResult(FALSE, NoneVal, NoneVal, {}),
              validated |-> FALSE]]

\* an empty store and a worker that has processed nothing
WorkerIdle ==
    /\ db_responses = EmptyBag
    /\ db_invalid = EmptyBag
    /\ cfg_validate = TRUE
    /\ wk_call = NoWorkerCall
    /\ wk_calls = 0

\* ------------------------------------------------------------ RateLimiter
MaxAcquires == 4
MaxRate == 2

MINUTE == 60
HOUR == 3600
DEFAULT_REQUESTS_PER_MINUTE == 60
DEFAULT_REQUESTS_PER_HOUR == 1000

\* the entries of a request log that fall into the clock bucket of now
bucket_requests(log, now, width) ==
    SelectSeq(log, LAMBDA req_time : req_time \div width = now \div width)

\* variant: the limit is reached one request late
limit_reached_late(requests, limit) == Len(requests) > limit

\* len(requests) >= limit
limit_reached(requests, limit) == Len(requests) >= limit

\* popleft while the oldest entry is older than the cutoff
RECURSIVE drop_old(_, _)
drop_old(log, cutoff) ==
    IF log # <<>> /\ Head(log) < cutoff THEN drop_old(Tail(log), cutoff) ELSE log

\* _cleanup_old_requests on a pair of logs
cleanup_old_requests(logs, now) ==
    [minute |-> drop_old(logs.minute, now - MINUTE),
     hour |-> drop_old(logs.hour, now - HOUR)]

\* acquire() at time now on a pair of logs: the value returned and the logs
acquire_on(logs, now) ==
    IF limit_reached(bucket_requests(logs.minute, now, MINUTE), cfg_rpm)
    THEN [val |-> FALSE, logs |-> logs]
    ELSE IF limit_reached(bucket_requests(logs.hour, now, HOUR), cfg_rph)
    THEN [val |-> FALSE, logs |-> logs]
    ELSE [val |-> TRUE,
          logs |-> cleanup_old_requests(
                       [minute |-> Append(logs.minute, now),
                        hour |-> Append(logs.hour, now)], now)]

\* calculate_wait_time() at time now: the seconds to the end of the minute
\* when the minute limit is reached, else to the end of the hour when the
\* hour limit is reached, else 0
calculate_wait_time(logs, now) ==
    IF limit_reached(bucket_requests(logs.minute, now, MINUTE), cfg_rpm)
    THEN MINUTE - (now % MINUTE)
    ELSE IF limit_reached(bucket_requests(logs.hour, now, HOUR), cfg_rph)
    THEN HOUR - (now % HOUR)
    ELSE 0

\* acquire(): the lock is held from the first test to the return
acquire ==
    LET r == acquire_on([minute |-> rl_minute, hour |-> rl_hour], rl_now) IN
    /\ rl_minute' = r.logs.minute
    /\ rl_hour' = r.logs.hour
    /\ rl_hist' = Append(rl_hist, [t |-> rl_now, ok |-> r.val])
    /\ rl_ticked' = FALSE
    /\ UNCHANGED <<rl_now, cfg_rpm, cfg_rph>>

\* RateLimiter.__init__ with the default limits, the clock at zero
LimiterIdle ==
    /\ rl_minute = <<>>
    /\ rl_hour = <<>>
    /\ rl_now = 0
    /\ rl_ticked = FALSE
    /\ rl_hist = <<>>
    /\ cfg_rpm = DEFAULT_REQUESTS_PER_MINUTE
    /\ cfg_rph = DEFAULT_REQUESTS_PER_HOUR

\* -------------------------------------------------------- ResponseBatcher
MaxItems == 4
MaxBatch == 2
DEFAULT_BATCH_SIZE == 100

\* the rows of a list of buffered items
RECURSIVE SeqToBag(_)
SeqToBag(items) ==
    IF items = <<>> THEN EmptyBag
    ELSE SetToBag({Head(items)}) (+) SeqToBag(Tail(items))

\* variant: the list is flushed one append late
batch_full_late(n, batch_size) == n > batch_size

\* the test after an append: len(pending) >= self.batch_size
batch_full(n, batch_size) == n >= batch_size

\* variant: the list is cleared whether or not the transaction committed
pending_after_flush_cleared(pending, db_ok) == <<>>

\* the pending list after the transactional scope of a flush has ended
pending_after_flush(pending, db_ok) == IF db_ok THEN <<>> ELSE pending

\* variant: the rows of a failed transaction stay in the table
flush_responses_unrolled(pending, rows, db_ok) ==
    IF pending = <<>>
    THEN [raised |-> FALSE, pending |-> pending, rows |-> rows]
    ELSE [raised |-> ~db_ok,
          pending |-> pending_after_flush(pending, db_ok),
          rows |-> rows (+) SeqToBag(pending)]

\* _flush_valid_responses / _flush_invalid_responses on one list and its table
flush_responses(pending, rows, db_ok) ==
    IF pending = <<>>
    THEN [raised |-> FALSE, pending |-> pending, rows |-> rows]
    ELSE [raised |-> ~db_ok,
          pending |-> pending_after_flush(pending, db_ok),
          rows |-> IF db_ok THEN rows (+) SeqToBag(pending) ELSE rows]

\* add_valid_response / add_invalid_response on one list and its table
add_response(pending, rows, item, db_ok) ==
    LET appended == Append(pending, item) IN
    IF batch_full(Len(appended), b_batch_size)
    THEN flush_responses(appended, rows, db_ok)
    ELSE [raised |-> FALSE, pending |-> appended, rows |-> rows]

add_valid_response(item, db_ok) ==
    LET r == add_response(b_valid, b_rows_valid, item, db_ok) IN
    /\ b_valid' = r.pending
    /\ b_rows_valid' = r.rows
    /\ b_n' = b_n + 1
    /\ b_ret' = [op |-> "add_valid", item |-> item, raised |-> r.raised]
    /\ UNCHANGED <<b_invalid, b_rows_invalid, b_batch_size>>

add_invalid_response(item, db_ok) ==
    LET r == add_response(b_invalid, b_rows_invalid, item, db_ok) IN
    /\ b_invalid' = r.pending
    /\ b_rows_invalid' = r.rows
    /\ b_n' = b_n + 1
    /\ b_ret' = [op |-> "add_invalid", item |-> item, raised |-> r.raised]
    /\ UNCHANGED <<b_valid, b_rows_valid, b_batch_size>>

\* flush_all: the invalid list is not reached when the valid flush raises
flush_all(db_ok1, db_ok2) ==
    LET v == flush_responses(b_valid, b_rows_valid, db_ok1)
        i == IF v.raised
             THEN [raised |-> TRUE, pending |-> b_invalid,
                   rows |-> b_rows_invalid]
             ELSE flush_responses(b_invalid, b_rows_invalid, db_ok2)
    IN /\ b_valid' = v.pending
       /\ b_rows_valid' = v.rows
       /\ b_invalid' = i.pending
       /\ b_rows_invalid' = i.rows
       /\ b_ret' = [op |-> "flush_all", item |-> 0, raised |-> i.raised]
       /\ UNCHANGED <<b_n, b_batch_size>>

\* ResponseBatcher.__init__ as the engine calls it
BatcherIdle ==
    /\ b_valid = <<>>
    /\ b_invalid = <<>>
    /\ b_batch_size = DEFAULT_BATCH_SIZE
    /\ b_rows_valid = EmptyBag
    /\ b_rows_invalid = EmptyBag
    /\ b_n = 0
    /\ b_ret = [op |-> "none", item |-> 0, raised |-> FALSE]

\* ------------------------------------------------------------ CSVImporter
MaxRows == 2
MaxImports == 2

\* the parameters of QuestionData.__init__
QuestionDataParams ==
    {"json_id", "category", "question_text", "golden_answer",
     "answer_schema", "default_correct", "metadata"}

\* the keyword arguments extract_data passes to QuestionData
ExtractKeywords ==
    {"json_id", "category", "question_text", "golden_answer",
     "answer_schema", "system_prompt", "default_correct", "metadata"}

\* the attributes of a QuestionData that store_data reads for a new Question
StoreAttributes ==
    {"json_id", "category", "question_text", "golden_answer",
     "answer_schema", "system_prompt", "default_correct"}

ALREADY_EXISTS == "already exists"
STORE_ERROR == "Error storing question"
VALIDATION_FAILED == "Source validation failed"

\* ImportResult.__init__
ImportResult(success, imported_count, error_count, errors) ==
    [success |-> success, imported_count |-> imported_count,
     error_count |-> error_count, errors |-> errors]

\* import_data's early returns: ImportResult(success=False, errors=[...]),
\* the two counts keep their defaults
failed_import(errors) == ImportResult(FALSE, 0, 0, errors)

\* the json_id values of a CSV file's rows ("": the column is empty); every
\* row has a question text
CsvFiles ==
    UNION { [1..n -> {"", "a", "b"}] : n \in 0..MaxRows }

\* a QuestionData built with the given keywords: the attributes it has, or
\* None when __init__ rejects a keyword (TypeError)
QuestionData(keywords, json_id) ==
    IF keywords \subseteq QuestionDataParams
    THEN [json_id |-> json_id, attributes |-> QuestionDataParams]
    ELSE NoneVal

\* a QuestionData on which the caller has set further attributes
with_attributes(question_data, names) ==
    [question_data EXCEPT !.attributes = @ \cup names]

\* extract_data: one QuestionData per row; a row whose construction raises is
\* reported and skipped
RECURSIVE extract_data(_)
extract_data(rows) ==
    IF rows = <<>> THEN <<>>
    ELSE LET question_data == QuestionData(ExtractKeywords, Head(rows)) IN
         IF question_data = NoneVal
         THEN extract_data(Tail(rows))
         ELSE <<question_data>> \o extract_data(Tail(rows))

\* store_data's loop, on the session's view of the table (pending rows are
\* flushed before each query)
RECURSIVE store_loop(_, _, _, _, _)
store_loop(data, store, imported_count, error_count, errors) ==
    IF data = <<>>
    THEN [store |-> store,
          result |-> ImportResult(error_count = 0, imported_count,
                                  error_count, errors)]
    ELSE LET question_data == Head(data)
             existing == /\ Truthy(question_data.json_id)
                         /\ \E k \in 1..Len(store) :
                                store[k] = question_data.json_id
         IN IF existing
            THEN store_loop(Tail(data), store, imported_count,
                            error_count + 1, Append(errors, ALREADY_EXISTS))
            ELSE IF StoreAttributes \subseteq question_data.attributes
            THEN store_loop(Tail(data), Append(store, question_data.json_id),
                            imported_count + 1, error_count, errors)
            ELSE store_loop(Tail(data), store, imported_count,
                            error_count + 1, Append(errors, STORE_ERROR))

store_data(data, store) == store_loop(data, store, 0, 0, <<>>)

\* import_data: validate_source, extract_data, store_data
import_data(exists, rows, store) ==
    IF ~exists
    THEN [store |-> store, result |-> failed_import(<<VALIDATION_FAILED>>)]
    ELSE store_data(extract_data(rows), store)

NoImport == [op |-> "none", exists |-> FALSE, rows |-> <<>>, before |-> <<>>,
             out |-> ImportResult(TRUE, 0, 0, <<>>)]

ImporterIdle ==
    /\ i_store = <<>>
    /\ i_result = NoImport
    /\ i_calls = 0

\* ------------------------------------------ ProcessingEngine._load_questions
MaxDbQuestions == 3
\* the page size of _load_questions (1000 in the code), scaled down
LoadBatchSize == 2

Categories == {"math", "text"}

Min(a, b) == IF a < b THEN a ELSE b

\* limit = None, written as a number that is not a count
NoLimit == -1

\* query.outerjoin(Response).filter(Response.id.is_(None)), then the
\* category filter: the rows without any response, in table order
unanswered(questions, category) ==
    SelectSeq(questions,
              LAMBDA q : /\ q.responses = 0
                         /\ (Truthy(category) => q.category = category))

\* .offset(offset).limit(n).all()
page(rows, offset, n) ==
    IF offset >= Len(rows) THEN <<>>
    ELSE SubSeq(rows, offset + 1, Min(offset + n, Len(rows)))

\* the test "if limit:"
limit_given(limit) == limit # NoLimit /\ limit # 0

\* the while loop of _load_questions
RECURSIVE load_loop(_, _, _, _)
load_loop(rows, limit, all_questions, offset) ==
    LET n == IF limit_given(limit)
             THEN Min(LoadBatchSize, limit - Len(all_questions))
             ELSE LoadBatchSize
        questions == page(rows, offset, n)
        extended == all_questions \o questions
    IN IF questions = <<>> THEN all_questions
       ELSE IF limit_given(limit) /\ Len(extended) >= limit
       THEN SubSeq(extended, 1, limit)
       ELSE IF Len(questions) < LoadBatchSize THEN extended
       ELSE load_loop(rows, limit, extended, offset + LoadBatchSize)

load_questions(questions, category, limit) ==
    load_loop(unanswered(questions, category), limit, <<>>, 0)

\* process_questions: one task per loaded question
tasks_of(questions) == [k \in 1..Len(questions) |-> questions[k].id]

NoLoad == [op |-> "none", category |-> NoneVal, limit |-> NoLimit,
           tasks |-> <<>>]

LoaderIdle ==
    /\ ld_questions = <<>>
    /\ ld_call = NoLoad

\* ------------------------------------------------- the migration scripts
MaxRuns == 3

Tables == {"questions", "responses", "invalid_responses"}

\* the scripts and, for each, the (table, column) pairs it adds, in order
Scripts == {"add_system_prompt_column", "add_thinking_columns",
            "migrate_default_correct"}

targets(script) ==
    CASE script = "add_system_prompt_column" ->
            <<[table |-> "questions", column |-> "system_prompt"]>>
      [] script = "add_thinking_columns" ->
            <<[table |-> "responses", column |-> "thinking"],
              [table |-> "invalid_responses", column |-> "thinking"]>>
      [] script = "migrate_default_correct" ->
            <<[table |-> "questions", column |-> "default_correct"]>>

\* PRAGMA table_info(table): the column names, none for a missing table
table_info(schema, table) ==
    IF schema[table].exists THEN schema[table].columns ELSE {}

\* variant: the column is never found
column_present_never(columns, column) == FALSE

\* the test "column in columns"
column_present(columns, column) == column \in columns

\* ALTER TABLE table ADD COLUMN column: an error for a missing table and for
\* a column that is there already
alter_table_add(schema, table, column) ==
    IF ~schema[table].exists \/ column \in schema[table].columns
    THEN [ok |-> FALSE, schema |-> schema]
    ELSE [ok |-> TRUE,
          schema |-> [schema EXCEPT ![table].columns = @ \cup {column}]]

\* the body of a script: for each target, test and add; an error ends the
\* run, and what was altered before it stays altered
RECURSIVE migrate_steps(_, _, _)
migrate_steps(schema, todo, reported) ==
    IF todo = <<>>
    THEN [ok |-> TRUE, schema |-> schema, exists_reported |-> reported]
    ELSE LET t == Head(todo) IN
         IF column_present(table_info(schema, t.table), t.column)
         THEN migrate_steps(schema, Tail(todo), reported \cup {t})
         ELSE LET r == alter_table_add(schema, t.table, t.column) IN
              IF r.ok
              THEN migrate_steps(r.schema, Tail(todo), reported)
              ELSE [ok |-> FALSE, schema |-> schema,
                    exists_reported |-> reported]

migrate_database(schema, script) == migrate_steps(schema, targets(script), {})

\* a database file the application created in its current version
MigrationIdle ==
    /\ mg_schema = [t \in Tables |->
                      [exists |-> TRUE,
                       columns |-> {"id"} \cup
                           {x.column : x \in
                               {y \in UNION {Range(targets(sc)) : sc \in Scripts} :
                                    y.table = t}}]]
    /\ mg_hist = <<>>

\* ------------------------------------------- DatabaseManager's retry
MaxAttempts == 3

\* what one scope around one invocation can do: the operation raises, the
\* operation returns and the commit raises, the operation returns and the
\* commit goes through
ScopeOutcomes == {"op_raises", "commit_raises", "commits"}

\* async_session_scope around operation(session): commit after the body,
\* rollback and re-raise on an exception of either, close at the end
async_session_scope(outcome) ==
    [op_returned |-> outcome # "op_raises",
     committed   |-> outcome = "commits",
     rolled_back |-> outcome # "commits",
     closed      |-> TRUE,
     raised      |-> outcome # "commits"]

\* variant: no attempt is taken for the last one
last_attempt_never(attempt, max_retries) == FALSE

\* the test "attempt == max_retries - 1"
last_attempt(attempt, max_retries) == attempt = max_retries - 1

\* the result of a call: the value returned by an invocation, the error
\* re-raised from an attempt, or the None of a loop that ran out
Returned(attempt) == [kind |-> "return", attempt |-> attempt]
Raised(attempt) == [kind |-> "raise", attempt |-> attempt]
ReturnedNone == [kind |-> "none", attempt |-> -1]

\* the for loop over range(max_retries); outcomes[attempt + 1] is what the
\* scope of that attempt does
RECURSIVE retry_loop(_, _, _, _)
retry_loop(outcomes, attempt, max_retries, scopes) ==
    IF attempt >= max_retries
    THEN [scopes |-> scopes, result |-> ReturnedNone]
    ELSE LET sc == async_session_scope(outcomes[attempt + 1])
             done == Append(scopes, sc) IN
         IF ~sc.raised
         THEN [scopes |-> done, result |-> Returned(attempt)]
         ELSE IF last_attempt(attempt, max_retries)
              THEN [scopes |-> done, result |-> Raised(attempt)]
              ELSE retry_loop(outcomes, attempt + 1, max_retries, done)

execute_with_retry(outcomes, max_retries) ==
    retry_loop(outcomes, 0, max_retries, <<>>)

NoRetry == [max_retries |-> 0, outcomes |-> <<>>, scopes |-> <<>>,
            result |-> ReturnedNone]

RetryIdle == rt_call = NoRetry

\* ---------------------------------------- the queue under arbitrary callers
QAddTask ==
    /\ Len(objs) + 1 <= MaxObjs
    /\ \E t \in TaskInputs : add_task(t)
    /\ UNCHANGED <<wvars, evars>>
QAddTasks ==
    /\ Len(objs) + 2 <= MaxObjs
    /\ \E t1, t2 \in TaskInputs : add_tasks(<<t1, t2>>)
    /\ UNCHANGED <<wvars, evars>>
QGetDequeue == (\E w \in Workers : get_next_task_dequeue(w)) /\ UNCHANGED evars
QGetRegister ==
    /\ \E w \in Workers :
        /\ get_next_task_register(w, "idle")
        /\ w_task' = [w_task EXCEPT ![w] = 0]
    /\ UNCHANGED evars
QMarkCompleted ==
    /\ \E id \in QIds, s \in BOOLEAN : mark_completed(id, s)
    /\ UNCHANGED <<wvars, evars>>
QRetryTask == (\E id \in QIds : retry_task(id)) /\ UNCHANGED <<wvars, evars>>
QClear == clear /\ UNCHANGED <<wvars, evars>>

\* ProcessingStats(): the counters the engine updates
ProcessingStats ==
    [total_questions |-> 0, processed_questions |-> 0,
     successful_responses |-> 0, failed_responses |-> 0]

\* ProcessingEngine.__init__: nothing runs yet
EngineIdle ==
    /\ e_running = FALSE
    /\ mon_pc = "init"
    /\ e_warnings = {}
    /\ e_errors = {}
    /\ e_success = TRUE
    /\ e_stop = FALSE
    /\ e_attempts = [q \in QIds |-> 0]
    /\ e_outcomes = [q \in QIds |-> {}]
    /\ e_stats = ProcessingStats

InitQueue ==
    /\ QueueInit
    /\ w_pc = [w \in Workers |-> "idle"]
    /\ w_task = [w \in Workers |-> 0]
    /\ cfg_max_retries = 0
    /\ cfg_batch_size = BatchSize
    /\ EngineIdle
    /\ ManagerIdle
    /\ WorkerIdle
    /\ LimiterIdle
    /\ BatcherIdle
    /\ ImporterIdle
    /\ LoaderIdle
    /\ MigrationIdle
    /\ RetryIdle
    /\ RegistryIdle

NextQueue ==
    \/ QAddTask
    \/ QAddTasks
    \/ QGetDequeue
    \/ QGetRegister
    \/ QMarkCompleted
    \/ QRetryTask
    \/ QClear

SpecQueue == InitQueue /\ [][NextQueue]_vars

\* ------------------------------------------------------ ProcessingEngine
TIMEOUT_WARNING == "Processing timeout reached"
NO_QUESTIONS_WARNING == "No questions found to process"
WORKER_ERROR == "Worker error"

\* variant: an error is recorded and the flag is left as it was
add_error_flag_kept(success, errors, error) ==
    [success |-> success, errors |-> errors \cup {error}]

\* ProcessingResult.add_error
add_error(success, errors, error) ==
    [success |-> FALSE, errors |-> errors \cup {error}]

\* ProcessingResult.add_warning
add_warning(warnings, warning) == warnings \cup {warning}

\* _update_stats, called by a worker after every process_question that returns
update_stats(stats, success) ==
    [stats EXCEPT !.processed_questions = @ + 1,
                  !.successful_responses = IF success THEN @ + 1 ELSE @,
                  !.failed_responses = IF success THEN @ ELSE @ + 1]

\* _update_final_stats: the failed count of get_stats is added
update_final_stats(stats, failed) ==
    [stats EXCEPT !.failed_responses = @ + failed]

\* process_questions builds one task per loaded question
EngineTasks(k) ==
    [i \in 1..k |-> QuestionTask(i, PENDING, cfg_max_retries, NoneVal)]

\* _retry_failed_tasks: retry_task on every task get_failed_tasks returned
RECURSIVE retry_failed_tasks(_, _)
retry_failed_tasks(s, ids) ==
    IF ids = {} THEN s
    ELSE LET id == CHOOSE x \in ids : \A y \in ids : x <= y
             r == IF q_tasks[id] # 0 THEN retry_task_on(s, id) ELSE s
         IN retry_failed_tasks([objs |-> r.objs, failed |-> r.failed,
                                queue |-> r.queue], ids \ {id})

\* the finally block of _run_processing up to the await of gather: every
\* worker is cancelled at the await it is suspended in.  A worker whose
\* queue.get() has already completed inside asyncio.wait_for either loses the
\* item and ends (wait_for re-raises) or keeps it and goes on (wait_for
\* returns the result and drops the cancellation), as the interpreter decides
CancelWorkers ==
    /\ \E survivors \in SUBSET {w \in Workers : w_pc[w] = "dequeued"} :
        w_pc' = [w \in Workers |->
                    IF w \in survivors THEN w_pc[w] ELSE "exited"]
    /\ mon_pc' = "gather"
    /\ UNCHANGED e_running

\* variant: the worker tasks are not awaited
gather_done_unawaited == TRUE

\* asyncio.gather(*worker_tasks, return_exceptions=True) has a result
gather_done == \A w \in Workers : w_pc[w] = "exited"

\* the top of _worker_loop: while self._running
LoopTop == IF e_running THEN "idle" ELSE "exited"

\* variant: a worker task is created for every slot
pool_slot_all(w, batch_size) == "idle"

\* for i in range(batch_size): asyncio.create_task(self._worker_loop(...))
pool_slot(w, batch_size) == IF w <= batch_size THEN "idle" ELSE "exited"

\* process_questions up to the first suspension of _run_processing
StartRun ==
    /\ mon_pc = "init"
    /\ \E k \in 0..NumQuestions :
        IF k = 0
        THEN /\ e_stats' = [e_stats EXCEPT !.total_questions = k]
             /\ e_warnings' = add_warning(e_warnings, NO_QUESTIONS_WARNING)
             /\ mon_pc' = "done"
             /\ UNCHANGED <<qvars, wvars, e_running>>
        ELSE /\ e_stats' = [e_stats EXCEPT !.total_questions = k]
             /\ add_tasks(EngineTasks(k))
             /\ e_running' = TRUE
             /\ w_pc' = [w \in Workers |-> pool_slot(w, cfg_batch_size)]
             /\ mon_pc' = "sleep"
             /\ UNCHANGED <<w_task, e_warnings>>
    /\ UNCHANGED <<cvars, e_errors, e_success, e_stop, e_attempts, e_outcomes>>

\* the monitoring loop wakes from its sleep after more than 900 seconds
MonitorTimeout ==
    /\ mon_pc = "sleep"
    /\ e_warnings' = add_warning(e_warnings, TIMEOUT_WARNING)
    /\ CancelWorkers
    /\ UNCHANGED <<qvars, w_task, cvars, e_errors, e_success, e_stop, e_attempts,
                   e_outcomes, e_stats>>

\* the monitoring loop wakes in time: _retry_failed_tasks, then the loop test
MonitorTick ==
    /\ mon_pc = "sleep"
    /\ LET r == retry_failed_tasks(
                    [objs |-> objs, failed |-> q_failed, queue |-> q_queue],
                    q_failed)
       IN /\ objs' = r.objs
          /\ q_failed' = r.failed
          /\ q_queue' = r.queue
          /\ IF r.queue = <<>> /\ q_processing = {}
             THEN CancelWorkers
             ELSE UNCHANGED <<w_pc, e_running, mon_pc>>
    /\ UNCHANGED <<q_tasks, q_processing, q_completed, q_ret, w_task,
                   cvars, e_warnings, e_errors, e_success, e_stop, e_attempts,
                   e_outcomes, e_stats>>

\* gather returns and _running is cleared; process_questions goes on to
\* record the end time
GatherReturn ==
    /\ mon_pc = "gather"
    /\ gather_done
    /\ e_running' = FALSE
    /\ mon_pc' = "flush"
    /\ UNCHANGED <<qvars, wvars, cvars, e_warnings, e_errors, e_success, e_stop,
                   e_attempts, e_outcomes, e_stats>>

\* response_batcher.flush_all, _update_final_stats, return result
FlushAll ==
    /\ mon_pc = "flush"
    /\ mon_pc' = "done"
    /\ e_stats' = update_final_stats(e_stats, Cardinality(q_failed))
    /\ UNCHANGED <<qvars, wvars, cvars, e_running, e_warnings, e_errors, e_success,
                   e_stop, e_attempts, e_outcomes>>

\* a worker's queue.get() inside get_next_task returns an item
WorkerDequeue ==
    /\ \E w \in Workers : get_next_task_dequeue(w)
    /\ UNCHANGED evars

\* get_next_task records the task and returns it; process_question starts
WorkerRegister ==
    /\ \E w \in Workers :
        /\ get_next_task_register(w, "processing")
        /\ e_attempts' = [e_attempts EXCEPT ![objs[w_task[w]].question_id] = @ + 1]
    /\ UNCHANGED <<w_task, cvars, e_running, mon_pc, e_warnings,
                   e_errors, e_success, e_stop, e_outcomes, e_stats>>

\* process_question returns; _update_stats; mark_completed; back to the loop top
WorkerFinish ==
    /\ \E w \in Workers, success \in BOOLEAN :
        /\ w_pc[w] = "processing"
        /\ LET qid == objs[w_task[w]].question_id IN
            /\ mark_completed(qid, success)
            /\ e_stats' = update_stats(e_stats, success)
            /\ e_outcomes' = [e_outcomes EXCEPT
                                ![qid] = @ \cup {IF success THEN "ok" ELSE "fail"}]
        /\ w_pc' = [w_pc EXCEPT ![w] = LoopTop]
        /\ w_task' = [w_task EXCEPT ![w] = 0]
    /\ UNCHANGED <<cvars, e_running, mon_pc, e_warnings, e_errors, e_success,
                   e_stop, e_attempts>>

\* process_question raises: the loop's except clause adds an error and sleeps
WorkerRaise ==
    /\ \E w \in Workers :
        /\ w_pc[w] = "processing"
        /\ e_outcomes' = [e_outcomes EXCEPT
                            ![objs[w_task[w]].question_id] = @ \cup {"raise"}]
        /\ w_pc' = [w_pc EXCEPT ![w] = "errsleep"]
        /\ w_task' = [w_task EXCEPT ![w] = 0]
    /\ LET r == add_error(e_success, e_errors, WORKER_ERROR) IN
        /\ e_errors' = r.errors
        /\ e_success' = r.success
    /\ UNCHANGED <<qvars, cvars, e_running, mon_pc, e_warnings, e_stop,
                   e_attempts, e_stats>>

\* the one-second pause after a worker error ends
WorkerErrWake ==
    /\ \E w \in Workers :
        /\ w_pc[w] = "errsleep"
        /\ w_pc' = [w_pc EXCEPT ![w] = LoopTop]
    /\ UNCHANGED <<qvars, w_task, evars>>

\* get_next_task times out on an empty queue and the loop test fails
WorkerPollExit ==
    /\ ~e_running
    /\ q_queue = <<>>
    /\ \E w \in Workers :
        /\ w_pc[w] = "idle"
        /\ w_pc' = [w_pc EXCEPT ![w] = "exited"]
    /\ UNCHANGED <<qvars, w_task, evars>>

\* ProcessingEngine.stop_processing
StopProcessing ==
    /\ mon_pc \in {"sleep", "gather"}
    /\ e_running
    /\ e_running' = FALSE
    /\ e_stop' = TRUE
    /\ UNCHANGED <<qvars, wvars, cvars, mon_pc, e_warnings, e_errors, e_success,
                   e_attempts, e_outcomes, e_stats>>

InitEngine ==
    /\ QueueInit
    /\ w_pc = [w \in Workers |-> "exited"]
    /\ w_task = [w \in Workers |-> 0]
    /\ cfg_max_retries \in 0..MaxRetries
    /\ cfg_batch_size \in 1..BatchSize
    /\ EngineIdle
    /\ ManagerIdle
    /\ WorkerIdle
    /\ LimiterIdle
    /\ BatcherIdle
    /\ ImporterIdle
    /\ LoaderIdle
    /\ MigrationIdle
    /\ RetryIdle
    /\ RegistryIdle

NextEngine ==
    \/ StartRun
    \/ MonitorTimeout
    \/ MonitorTick
    \/ GatherReturn
    \/ FlushAll
    \/ WorkerDequeue
    \/ WorkerRegister
    \/ WorkerFinish
    \/ WorkerRaise
    \/ WorkerErrWake
    \/ WorkerPollExit
    \/ StopProcessing

SpecEngine == InitEngine /\ [][NextEngine]_vars

\* the event loop runs every coroutine that is ready, every sleep ends, the
\* clock passes the 900-second ceiling if the monitoring loop stays in it,
\* and a provider call ends; nobody has to call stop_processing
SpecEngineFair ==
    /\ SpecEngine
    /\ WF_vars(StartRun)
    /\ WF_vars(MonitorTimeout)
    /\ WF_vars(MonitorTick)
    /\ WF_vars(GatherReturn)
    /\ WF_vars(FlushAll)
    /\ WF_vars(WorkerDequeue)
    /\ WF_vars(WorkerRegister)
    /\ WF_vars(WorkerFinish \/ WorkerRaise)
    /\ WF_vars(WorkerErrWake)
    /\ WF_vars(WorkerPollExit)

\* ------------------------------------- the manager under arbitrary callers
\* no provider, an empty name, every registered name and an unregistered one
PreferredInputs ==
    {NoneVal, ""} \cup Range(SubSeq(AllProviders, 1, MaxProviders + 1))
\* no override, an empty one, the four strategies and an unknown name
OverrideInputs == {NoneVal, "", "bogus"} \cup Strategies

\* one call of generate_response_with_failover, from entry to return or raise
ManagerCall ==
    /\ m_call.op = "none"
    /\ \E pp \in PreferredInputs, fs \in OverrideInputs,
          env \in [Range(m_providers) -> Behaviours] :
        m_call' = [op |-> "call", preferred |-> pp, override |-> fs, env |-> env,
                   out |-> generate_response_with_failover(pp, fs, env)]
    /\ UNCHANGED <<qvars, wvars, kvars, dvars, lvars, rvars,
                   m_providers, cfg_strategy, cfg_failover_on_errors>>

\* _initialize_providers registered some of the configured providers
InitManager ==
    /\ QueueInit
    /\ w_pc = [w \in Workers |-> "exited"]
    /\ w_task = [w \in Workers |-> 0]
    /\ cfg_max_retries = 0
    /\ cfg_batch_size = BatchSize
    /\ EngineIdle
    /\ WorkerIdle
    /\ LimiterIdle
    /\ BatcherIdle
    /\ ImporterIdle
    /\ LoaderIdle
    /\ MigrationIdle
    /\ RetryIdle
    /\ m_providers \in {SubSeq(AllProviders, 1, n) : n \in 0..MaxProviders}
    /\ cfg_strategy \in FailoverStrategyValues
    /\ cfg_failover_on_errors \in FailoverOnErrorsValues
    /\ m_call = NoCall
    /\ RegistryIdle

\* the caller takes the result
ManagerReturn ==
    /\ m_call.op = "call"
    /\ m_call' = NoCall
    /\ UNCHANGED <<qvars, wvars, kvars, dvars, lvars, rvars,
                   m_providers, cfg_strategy, cfg_failover_on_errors>>

NextManager ==
    \/ ManagerCall
    \/ ManagerReturn

SpecManager == InitManager /\ [][NextManager]_vars

\* ---------------------------------- the worker called again and again
\* tasks name no provider, the first registered one, or one that is unknown
WorkerTasks ==
    { [question_id |-> q, provider_name |-> pp, answer_schema |-> sc] :
        q \in QIds,
        pp \in {NoneVal, AllProviders[1], AllProviders[MaxProviders + 1]},
        sc \in Schemas }

WorkerBehaviours == {b \in Behaviours : b.acq /\ b.msg \in {{}, {"network"}}}

\* one call of process_question, from entry to return or raise
ProcessQuestion ==
    /\ wk_call.op = "none"
    /\ wk_calls < MaxCalls
    /\ \E task \in WorkerTasks, env \in [Range(m_providers) -> WorkerBehaviours],
          conforms \in BOOLEAN, db_error1 \in BOOLEAN, db_error2 \in BOOLEAN :
        \* only a parseable schema has responses that conform to it
        /\ conforms => task.answer_schema = "schema"
        /\ \E r \in {process_question(task, env, conforms, db_error1, db_error2)} :
            /\ db_responses' = r.responses
            /\ db_invalid' = r.invalid
            /\ wk_call' = [op |-> "call", task |-> task, conforms |-> conforms,
                           db_error1 |-> db_error1, db_error2 |-> db_error2,
                           out |-> [raised |-> r.raised, result |-> r.result,
                                    gen |-> r.gen, validated |-> r.validated]]
    /\ wk_calls' = wk_calls + 1
    /\ UNCHANGED <<qvars, wvars, kvars, mvars, lvars, rvars,
                   cfg_validate>>

InitWorker ==
    /\ QueueInit
    /\ w_pc = [w \in Workers |-> "exited"]
    /\ w_task = [w \in Workers |-> 0]
    /\ cfg_max_retries = 0
    /\ cfg_batch_size = BatchSize
    /\ EngineIdle
    /\ LimiterIdle
    /\ BatcherIdle
    /\ ImporterIdle
    /\ LoaderIdle
    /\ MigrationIdle
    /\ RetryIdle
    /\ m_providers = SubSeq(AllProviders, 1, MaxProviders)
    /\ cfg_strategy \in {"none", "all"}
    /\ cfg_failover_on_errors = {"rate_limit"}
    /\ m_call = NoCall
    /\ db_responses = EmptyBag
    /\ db_invalid = EmptyBag
    /\ cfg_validate \in BOOLEAN
    /\ wk_call = NoWorkerCall
    /\ wk_calls = 0
    /\ RegistryIdle

\* the caller takes the result
WorkerReturn ==
    /\ wk_call.op = "call"
    /\ wk_call' = NoWorkerCall
    /\ UNCHANGED <<qvars, wvars, kvars, mvars, lvars, rvars,
                   cfg_validate, db_responses, db_invalid, wk_calls>>

NextWorker ==
    \/ ProcessQuestion
    \/ WorkerReturn

SpecWorker == InitWorker /\ [][NextWorker]_vars

\* ------------------------------------- one limiter under arbitrary callers
\* how far the clock moves between two calls
ClockSteps == {1, MINUTE - 1, MINUTE + 1, HOUR - MINUTE}

\* time passes
ClockAdvance ==
    /\ ~rl_ticked
    /\ Len(rl_hist) < MaxAcquires
    /\ \E d \in ClockSteps : rl_now' = rl_now + d
    /\ rl_ticked' = TRUE
    /\ UNCHANGED <<rl_minute, rl_hour, rl_hist, cfg_rpm, cfg_rph>>
    /\ UNCHANGED <<qvars, wvars, kvars, mvars, dvars, rvars>>

\* some coroutine calls acquire(); calls are serialised by the limiter's lock
Acquire ==
    /\ Len(rl_hist) < MaxAcquires
    /\ acquire
    /\ UNCHANGED <<qvars, wvars, kvars, mvars, dvars, rvars>>

\* a new limiter; the clock stands anywhere in its minute and hour
InitLimiter ==
    /\ QueueInit
    /\ w_pc = [w \in Workers |-> "exited"]
    /\ w_task = [w \in Workers |-> 0]
    /\ cfg_max_retries = 0
    /\ cfg_batch_size = BatchSize
    /\ EngineIdle
    /\ ManagerIdle
    /\ WorkerIdle
    /\ rl_minute = <<>>
    /\ rl_hour = <<>>
    /\ rl_now \in {0, MINUTE - 1, HOUR - 1}
    /\ rl_ticked = FALSE
    /\ rl_hist = <<>>
    /\ cfg_rpm \in 1..MaxRate
    /\ cfg_rph \in (1..MaxRate) \cup {DEFAULT_REQUESTS_PER_HOUR}
    /\ BatcherIdle
    /\ ImporterIdle
    /\ LoaderIdle
    /\ MigrationIdle
    /\ RetryIdle
    /\ RegistryIdle

NextLimiter ==
    \/ ClockAdvance
    \/ Acquire

SpecLimiter == InitLimiter /\ [][NextLimiter]_vars

\* --------------------------------- one batcher shared by several workers
\* everything but the batcher
corevars == <<qvars, wvars, cfg_max_retries, cfg_batch_size, mvars, dvars, lvars, rvars>>

\* every component but the batcher as it is before any call
CoreIdle ==
    /\ QueueInit
    /\ w_pc = [w \in Workers |-> "exited"]
    /\ w_task = [w \in Workers |-> 0]
    /\ cfg_max_retries = 0
    /\ cfg_batch_size = BatchSize
    /\ EngineIdle
    /\ ManagerIdle
    /\ WorkerIdle
    /\ LimiterIdle

\* a worker hands over a valid result; calls are serialised by the lock,
\* which is held until the flush has ended
AddValid ==
    /\ b_n < MaxItems
    /\ \E db_ok \in BOOLEAN : add_valid_response(b_n + 1, db_ok)
    /\ UNCHANGED <<corevars, ivars, ldvars, mgvars, rtvars, regvars>>

AddInvalid ==
    /\ b_n < MaxItems
    /\ \E db_ok \in BOOLEAN : add_invalid_response(b_n + 1, db_ok)
    /\ UNCHANGED <<corevars, ivars, ldvars, mgvars, rtvars, regvars>>

BatcherFlushAll ==
    /\ b_ret.op # "flush_all"
    /\ \E db_ok1, db_ok2 \in BOOLEAN : flush_all(db_ok1, db_ok2)
    /\ UNCHANGED <<corevars, ivars, ldvars, mgvars, rtvars, regvars>>

InitBatcher ==
    /\ CoreIdle
    /\ ImporterIdle
    /\ LoaderIdle
    /\ MigrationIdle
    /\ RetryIdle
    /\ RegistryIdle
    /\ b_valid = <<>>
    /\ b_invalid = <<>>
    /\ b_batch_size \in 1..MaxBatch
    /\ b_rows_valid = EmptyBag
    /\ b_rows_invalid = EmptyBag
    /\ b_n = 0
    /\ b_ret = [op |-> "none", item |-> 0, raised |-> FALSE]

NextBatcher ==
    \/ AddValid
    \/ AddInvalid
    \/ BatcherFlushAll

SpecBatcher == InitBatcher /\ [][NextBatcher]_vars

\* ------------------------------------------- imports into one database
\* import_data is called on a path that is missing or holds a CSV file
ImportData ==
    /\ i_calls < MaxImports
    /\ \E exists \in BOOLEAN, rows \in CsvFiles :
        /\ (~exists => rows = <<>>)
        /\ LET r == import_data(exists, rows, i_store) IN
            /\ i_store' = r.store
            /\ i_result' = [op |-> "import_data", exists |-> exists,
                            rows |-> rows, before |-> i_store,
                            out |-> r.result]
    /\ i_calls' = i_calls + 1
    /\ UNCHANGED <<corevars, bvars, ldvars, mgvars, rtvars, regvars>>

\* store_data is called with QuestionData objects the caller built, as they
\* are or with a system_prompt attribute set on each
StoreData ==
    /\ i_calls < MaxImports
    /\ \E rows \in CsvFiles, names \in {{}, {"system_prompt"}} :
        LET data == [k \in 1..Len(rows) |->
                        with_attributes(
                            QuestionData(QuestionDataParams, rows[k]), names)]
            r == store_data(data, i_store)
        IN /\ i_store' = r.store
           /\ i_result' = [op |-> "store_data", exists |-> TRUE,
                           rows |-> rows, before |-> i_store,
                           out |-> r.result]
    /\ i_calls' = i_calls + 1
    /\ UNCHANGED <<corevars, bvars, ldvars, mgvars, rtvars, regvars>>

\* the questions table holds rows with distinct json_ids or none
StoredBefore == {<<>>, <<"a">>, <<"b">>, <<"a", "b">>, <<"">>, <<"", "a">>}

InitImporter ==
    /\ CoreIdle
    /\ BatcherIdle
    /\ i_store \in StoredBefore
    /\ i_result = NoImport
    /\ i_calls = 0
    /\ LoaderIdle
    /\ MigrationIdle
    /\ RetryIdle
    /\ RegistryIdle

NextImporter ==
    \/ ImportData
    \/ StoreData

SpecImporter == InitImporter /\ [][NextImporter]_vars

\* ------------------------------------- loading the questions of one run
\* the tables as a run finds them: rows numbered in insertion order
DbQuestions ==
    UNION { { [k \in 1..n |-> [id |-> k, category |-> c[k],
                               responses |-> r[k]]] :
                c \in [1..n -> Categories], r \in [1..n -> 0..1] } :
            n \in 0..MaxDbQuestions }

\* the --limit and --category options of a run
LimitInputs == {NoLimit} \cup (0..MaxDbQuestions)
CategoryInputs == {NoneVal} \cup Categories

\* process_questions loads the questions and builds their tasks
LoadQuestions ==
    /\ ld_call.op = "none"
    /\ \E category \in CategoryInputs, limit \in LimitInputs :
        ld_call' = [op |-> "load", category |-> category, limit |-> limit,
                    tasks |-> tasks_of(load_questions(ld_questions,
                                                      category, limit))]
    /\ UNCHANGED <<corevars, bvars, ivars, ld_questions, mgvars, rtvars, regvars>>

\* the run is over; the next one starts from the same tables
LoadReturn ==
    /\ ld_call.op = "load"
    /\ ld_call' = NoLoad
    /\ UNCHANGED <<corevars, bvars, ivars, ld_questions, mgvars, rtvars, regvars>>

InitLoader ==
    /\ CoreIdle
    /\ BatcherIdle
    /\ ImporterIdle
    /\ ld_questions \in DbQuestions
    /\ ld_call = NoLoad
    /\ MigrationIdle
    /\ RetryIdle
    /\ RegistryIdle

NextLoader ==
    \/ LoadQuestions
    \/ LoadReturn

SpecLoader == InitLoader /\ [][NextLoader]_vars

\* ------------------------------------- migration scripts run on one file
\* somebody runs one of the scripts
Migrate ==
    /\ Len(mg_hist) < MaxRuns
    /\ \E script \in Scripts :
        LET r == migrate_database(mg_schema, script) IN
        /\ mg_schema' = r.schema
        /\ mg_hist' = Append(mg_hist,
                             [script |-> script, before |-> mg_schema,
                              after |-> r.schema, ok |-> r.ok,
                              exists_reported |-> r.exists_reported])
    /\ UNCHANGED <<corevars, bvars, ivars, ldvars, rtvars, regvars>>

\* a file made by any earlier version of the application: all tables, each
\* with or without the later columns; or a file with no tables yet
InitMigration ==
    /\ CoreIdle
    /\ BatcherIdle
    /\ ImporterIdle
    /\ LoaderIdle
    /\ RetryIdle
    /\ RegistryIdle
    /\ \E tables_exist \in BOOLEAN :
       \E q \in SUBSET {"system_prompt", "default_correct"} :
       \E r, i \in SUBSET {"thinking"} :
        /\ (~tables_exist => q = {} /\ r = {} /\ i = {})
        /\ mg_schema =
            [t \in Tables |->
                [exists |-> tables_exist,
                 columns |-> IF ~tables_exist THEN {}
                             ELSE {"id"} \cup
                                  (CASE t = "questions" -> q
                                     [] t = "responses" -> r
                                     [] t = "invalid_responses" -> i)]]
    /\ mg_hist = <<>>

NextMigration == Migrate

SpecMigration == InitMigration /\ [][NextMigration]_vars

\* ----------------------------------------- execute_with_retry by itself
\* a caller runs an operation under execute_with_retry
ExecuteWithRetry ==
    /\ \E max_retries \in 0..MaxAttempts :
       \E outcomes \in [1..MaxAttempts -> ScopeOutcomes] :
        LET r == execute_with_retry(outcomes, max_retries) IN
        rt_call' = [max_retries |-> max_retries, outcomes |-> outcomes,
                    scopes |-> r.scopes, result |-> r.result]
    /\ UNCHANGED <<corevars, bvars, ivars, ldvars, mgvars, regvars>>

InitRetry ==
    /\ CoreIdle
    /\ BatcherIdle
    /\ ImporterIdle
    /\ LoaderIdle
    /\ MigrationIdle
    /\ RetryIdle
    /\ RegistryIdle

NextRetry == ExecuteWithRetry

SpecRetry == InitRetry /\ [][NextRetry]_vars

\* ------------------------------------ the registry reconfigured at run time
\* the names a caller registers and removes
RegistryNames == Range(SubSeq(AllProviders, 1, MaxProviders + 1))

AddProvider ==
    /\ \E name \in RegistryNames, type \in ProviderTypes, ctor_ok \in BOOLEAN :
        LET r == add_provider(name, type, ctor_ok) IN
        /\ m_providers' = r.providers
        /\ m_limiters' = r.limiters
        /\ m_reg' = [op |-> "add_provider", name |-> name,
                     before |-> m_providers, ret |-> r.ret]
    /\ UNCHANGED <<qvars, wvars, cfg_max_retries, cfg_batch_size, dvars, lvars,
                   rvars, bvars, ivars, ldvars, mgvars, rtvars,
                   cfg_strategy, cfg_failover_on_errors, m_call>>

RemoveProvider ==
    /\ \E name \in RegistryNames :
        LET r == remove_provider(name) IN
        /\ m_providers' = r.providers
        /\ m_limiters' = r.limiters
        /\ m_reg' = [op |-> "remove_provider", name |-> name,
                     before |-> m_providers, ret |-> r.ret]
    /\ UNCHANGED <<qvars, wvars, cfg_max_retries, cfg_batch_size, dvars, lvars,
                   rvars, bvars, ivars, ldvars, mgvars, rtvars,
                   cfg_strategy, cfg_failover_on_errors, m_call>>

InitRegistry ==
    /\ CoreIdle
    /\ BatcherIdle
    /\ ImporterIdle
    /\ LoaderIdle
    /\ MigrationIdle
    /\ RetryIdle
    /\ RegistryIdle

NextRegistry ==
    \/ AddProvider
    \/ RemoveProvider

SpecRegistry == InitRegistry /\ [][NextRegistry]_vars

C26_SuccessIffNoErrors ==
    /\ [](e_success <=> e_errors = {})
    /\ [][/\ (e_warnings' # e_warnings) => e_success' = e_success
          /\ (WORKER_ERROR \in e_errors') => ~e_success']_vars

\* a run that timed out after a worker error
C26_Witness ==
    /\ mon_pc = "done"
    /\ TIMEOUT_WARNING \in e_warnings
    /\ WORKER_ERROR \in e_errors
    /\ ~e_success

\* C17: process_questions always terminates: once the pool is started the
\* monitoring loop ends by drain or by the 900-second ceiling and the call
\* returns its result.
C17_AlwaysTerminates == (mon_pc = "sleep") ~> (mon_pc = "done")

C2_StatusStateMachine ==
    [][\A o \in 1..Len(objs) :
        objs'[o].status # objs[o].status =>
            \/ objs[o].status = PENDING /\ objs'[o].status = PROCESSING
            \/ objs[o].status = PROCESSING /\ objs'[o].status \in {COMPLETED, FAILED}
            \/ /\ objs[o].status = FAILED
               /\ objs'[o].status = PENDING
               /\ objs[o].retry_count < objs[o].max_retries]_vars

\* C4: retry_task(id) returns true exactly when the task is known and its
\* retry_count is below max_retries before the call; a true call increments
\* retry_count by one, clears error_message, sets PENDING, takes the id out of
\* the failed set and enqueues the task once; a false call changes none of
\* status, retry_count, error_message, the failed set and the pending queue.
C4_RetryTaskFrame ==
    [][\A id \in QIds :
        retry_task(id) =>
            LET o == q_tasks[id]
                ok == o # 0 /\ objs[o].retry_count < objs[o].max_retries
            IN  /\ q_ret'.val = ok
                /\ ok => /\ objs'[o].retry_count = objs[o].retry_count + 1
                         /\ objs'[o].error_message = NoneVal
                         /\ objs'[o].status = PENDING
                         /\ id \notin q_failed'
                         /\ q_queue' = Append(q_queue, o)
                         /\ \A x \in 1..Len(objs) : x # o => objs'[x] = objs[x]
                /\ ~ok => /\ objs' = objs
                          /\ q_failed' = q_failed
                          /\ q_queue' = q_queue]_vars

\* a failed task with an error message was retried: the call returned true
C4_Witness ==
    /\ q_ret.op = "retry_task" /\ q_ret.val
    /\ q_tasks[q_ret.id] # 0
    /\ objs[q_tasks[q_ret.id]].retry_count = 1
    /\ objs[q_tasks[q_ret.id]].status = PENDING
    /\ objs[q_tasks[q_ret.id]].error_message = NoneVal
    /\ q_ret.id \notin q_failed
    /\ q_queue # <<>> /\ q_queue[Len(q_queue)] = q_tasks[q_ret.id]

\* C20: whenever is_empty() returns true, no task is waiting in the
\* underlying queue, the processing set is empty and no task of the queue has
\* status PROCESSING, whatever calls of get_next_task, mark_completed and
\* retry_task came before.
C20_IsEmptyOnlyWhenIdle ==
    is_empty =>
        /\ q_queue = <<>>
        /\ q_processing = {}
        /\ \A q \in QIds :
            q_tasks[q] # 0 => objs[q_tasks[q]].status # PROCESSING

\* is_empty() is true after one task was completed and another failed
C20_Witness ==
    /\ is_empty
    /\ q_completed # {}
    /\ q_failed # {}

\* ----------------------------------------------------- claims on the manager
\* the strategy a call runs under: the override when given, else the configured
CallStrategy ==
    IF Truthy(m_call.override) THEN m_call.override ELSE cfg_strategy

\* the providers whose generate_response the call invoked, in order
Attempted ==
    LET g == SelectSeq(m_call.out.log, LAMBDA e : e.op = "generate") IN
    [i \in 1..Len(g) |-> g[i].provider]

PreferredRegistered ==
    Truthy(m_call.preferred) /\ m_call.preferred \in Range(m_providers)

\* preferred provider first when registered, then the others as registered
PreferredFirstOrder ==
    IF PreferredRegistered
    THEN <<m_call.preferred>> \o
         SelectSeq(m_providers, LAMBDA p : p # m_call.preferred)
    ELSE m_providers

\* the positions of seq whose provider would answer
Succeeding(seq) == {i \in 1..Len(seq) : m_call.env[seq[i]].ok}

Least(S) == CHOOSE x \in S : \A y \in S : x <= y

C7_AllTriesInOrder ==
    (m_call.op = "call" /\ CallStrategy = "all") =>
        LET order == PreferredFirstOrder
            succ == Succeeding(order)
        IN /\ ~m_call.out.raised
           /\ IF succ = {}
              THEN Attempted = order /\ ~m_call.out.result.success
              ELSE /\ Attempted = SubSeq(order, 1, Least(succ))
                   /\ m_call.out.result.success
                   /\ m_call.out.result.provider_name = order[Least(succ)]

\* the preferred second provider fails on authentication, the first answers
C7_Witness ==
    /\ m_call.op = "call" /\ CallStrategy = "all"
    /\ Len(m_providers) = 2
    /\ m_call.preferred = m_providers[2]
    /\ classify_error(m_call.env[m_providers[2]].msg) = "auth"
    /\ ~m_call.env[m_providers[2]].ok
    /\ Attempted = <<m_providers[2], m_providers[1]>>
    /\ m_call.out.result.success
    /\ m_call.out.result.provider_name = m_providers[1]

\* C8: under strategy none, and under an unrecognised strategy, a call with no
\* preferred provider or with an unregistered one invokes no provider and no
\* rate limiter and returns a failed result of type configuration_error.
C8_NoneTriesNothing ==
    (/\ m_call.op = "call"
     /\ CallStrategy \notin {"preferred_only", "rate_limit_only", "all"}
     /\ ~PreferredRegistered) =>
        /\ m_call.out.log = <<>>
        /\ ~m_call.out.raised
        /\ ~m_call.out.result.success
        /\ m_call.out.result.error_type = "configuration_error"

\* an unrecognised strategy, an unregistered preferred provider, two providers
C8_Witness ==
    /\ m_call.op = "call"
    /\ CallStrategy \notin Strategies
    /\ Truthy(m_call.preferred) /\ ~PreferredRegistered
    /\ Len(m_providers) = 2
    /\ m_call.out.log = <<>>
    /\ m_call.out.result.error_type = "configuration_error"

\* C9: under strategy preferred_only with no preferred provider, or with an
\* unregistered one, every provider is tried in registration order until the
\* first success: when a later provider would succeed the call returns its
\* successful result.
C9_PreferredOnlyTriesAll ==
    (/\ m_call.op = "call"
     /\ CallStrategy = "preferred_only"
     /\ ~PreferredRegistered
     /\ Succeeding(m_providers) # {}) =>
        LET k == Least(Succeeding(m_providers)) IN
        /\ Attempted = SubSeq(m_providers, 1, k)
        /\ m_call.out.result.success
        /\ m_call.out.result.provider_name = m_providers[k]

C1_OneResponsePerPair ==
    \A row \in BagToSet(db_responses) : CopiesIn(row, db_responses) <= 1

\* a second successful generation for a stored pair was processed
C1_Witness ==
    /\ wk_call.op = "call"
    /\ wk_call.out.gen.success
    /\ ~wk_call.db_error1
    /\ ~wk_call.out.raised
    /\ wk_call.out.result.error_type = "processing_error"
    /\ CopiesIn(ResponseRow(wk_call.task.question_id,
                            wk_call.out.gen.provider_name), db_responses) = 1

\* C6: process_question never raises: a provider failure, a validation
\* failure and an exception while storing a Response or an InvalidResponse
\* are caught, persisted as an InvalidResponse and returned as a failed result.
C6_ProcessQuestionNeverRaises ==
    wk_call.op = "call" =>
        /\ ~wk_call.out.raised
        /\ ~wk_call.out.result.success =>
              BagIn(InvalidResponseRow(wk_call.task.question_id,
                                       wk_call.out.result.error_type),
                    db_invalid)

\* a call of process_question has just been made on a store that accepted
\* the row the call wrote first
CallStep == wk_call.op = "none" /\ wk_call'.op = "call" /\ ~wk_call'.db_error1

\* C14: with validation enabled and an answer_schema that is not parseable as
\* JSON the task does not fail: the generated response is stored as a Response
\* and the result returned has success = true.
C14_UnparseableSchemaTolerated ==
    (/\ wk_call.op = "call"
     /\ wk_calls = 1
     /\ cfg_validate
     /\ wk_call.task.answer_schema = "not json"
     /\ wk_call.out.gen.success
     /\ ~wk_call.db_error1) =>
        /\ wk_call.out.result.success
        /\ BagIn(ResponseRow(wk_call.task.question_id,
                             wk_call.out.gen.provider_name), db_responses)

GrantsWithin(from, width) ==
    {i \in 1..Len(rl_hist) :
        rl_hist[i].ok /\ rl_hist[i].t >= from /\ rl_hist[i].t < from + width}

\* C11: with requests_per_minute = N and the hourly limit not binding, of N+1
\* acquire() calls on a new limiter made within one second the first N return
\* true and the last returns false; a further call 61 seconds later returns
\* true.
C11_BurstThenDenied ==
    (/\ cfg_rph = DEFAULT_REQUESTS_PER_HOUR
     /\ Len(rl_hist) >= cfg_rpm + 1
     /\ rl_hist[cfg_rpm + 1].t - rl_hist[1].t <= 1) =>
        /\ \A i \in 1..cfg_rpm : rl_hist[i].ok
        /\ ~rl_hist[cfg_rpm + 1].ok
        /\ (/\ Len(rl_hist) >= cfg_rpm + 2
            /\ rl_hist[cfg_rpm + 2].t = rl_hist[cfg_rpm + 1].t + MINUTE + 1) =>
                rl_hist[cfg_rpm + 2].ok

\* C12: admission is sliding-window: in any 60 consecutive seconds acquire()
\* returns true at most requests_per_minute times, and in any 3600 consecutive
\* seconds at most requests_per_hour times, however the interval lies to the
\* clock's minutes and hours.
C12_SlidingWindow ==
    \A i \in 1..Len(rl_hist) :
        /\ Cardinality(GrantsWithin(rl_hist[i].t, MINUTE)) <= cfg_rpm
        /\ Cardinality(GrantsWithin(rl_hist[i].t, HOUR)) <= cfg_rph

\* C13: acquire() returns false exactly when the current minute bucket holds
\* requests_per_minute requests or more, or the current hour bucket holds
\* requests_per_hour or more; a false call leaves both logs as they are, a true
\* call appends the current time to both; calls of concurrent callers are
\* atomic to each other.
C13_AcquireFrame ==
    [][Len(rl_hist') = Len(rl_hist) + 1 =>
        LET in_minute == Cardinality({i \in 1..Len(rl_minute) :
                            rl_minute[i] \div MINUTE = rl_now \div MINUTE})
            in_hour == Cardinality({i \in 1..Len(rl_hour) :
                            rl_hour[i] \div HOUR = rl_now \div HOUR})
            ok == rl_hist'[Len(rl_hist')].ok
        IN /\ ~ok <=> (in_minute >= cfg_rpm \/ in_hour >= cfg_rph)
           /\ ~ok => rl_minute' = rl_minute /\ rl_hour' = rl_hour
           /\ ok => /\ rl_minute' # <<>> /\ rl_minute'[Len(rl_minute')] = rl_now
                    /\ rl_hour' # <<>> /\ rl_hour'[Len(rl_hour')] = rl_now
                    /\ \A t \in Range(rl_minute) :
                          t \div MINUTE = rl_now \div MINUTE => t \in Range(rl_minute')
                    /\ \A t \in Range(rl_hour) :
                          t \div HOUR = rl_now \div HOUR => t \in Range(rl_hour')]_vars

\* a call was denied by the hour bucket alone: the minute bucket was empty
C13_Witness ==
    /\ rl_minute # <<>>
    /\ \E i \in 1..(Len(rl_hist) - 1) :
        /\ rl_hist[i].ok
        /\ ~rl_hist[i + 1].ok
        /\ rl_hist[i + 1].t = rl_hist[i].t + MINUTE + 1

\* ------------------------------------------------- claims on the batcher
\* C21: whenever add_valid_response or add_invalid_response returns normally
\* its pending list holds fewer than batch_size items: a list that reaches
\* batch_size is flushed, all its items inserted and the list cleared, in the
\* same call, and the other pending list and table are left unchanged.
C21_AddKeepsListBelowBatch ==
    [][/\ (b_n' = b_n + 1 /\ b_ret'.op = "add_valid" /\ ~b_ret'.raised) =>
            /\ Len(b_valid') < b_batch_size
            /\ (Len(b_valid) + 1 >= b_batch_size =>
                    /\ b_valid' = <<>>
                    /\ b_rows_valid' = b_rows_valid (+)
                           SeqToBag(Append(b_valid, b_ret'.item)))
            /\ (Len(b_valid) + 1 < b_batch_size =>
                    /\ b_valid' = Append(b_valid, b_ret'.item)
                    /\ b_rows_valid' = b_rows_valid)
            /\ b_invalid' = b_invalid
            /\ b_rows_invalid' = b_rows_invalid
       /\ (b_n' = b_n + 1 /\ b_ret'.op = "add_invalid" /\ ~b_ret'.raised) =>
            /\ Len(b_invalid') < b_batch_size
            /\ (Len(b_invalid) + 1 >= b_batch_size =>
                    /\ b_invalid' = <<>>
                    /\ b_rows_invalid' = b_rows_invalid (+)
                           SeqToBag(Append(b_invalid, b_ret'.item)))
            /\ (Len(b_invalid) + 1 < b_batch_size =>
                    /\ b_invalid' = Append(b_invalid, b_ret'.item)
                    /\ b_rows_invalid' = b_rows_invalid)
            /\ b_valid' = b_valid
            /\ b_rows_valid' = b_rows_valid]_vars

\* an append filled the valid list and flushed it while invalid items waited
C21_Witness ==
    /\ b_ret.op = "add_valid" /\ ~b_ret.raised
    /\ b_batch_size = MaxBatch
    /\ b_valid = <<>>
    /\ BagCardinality(b_rows_valid) >= MaxBatch
    /\ b_invalid # <<>>

\* C22: in every state each item handed to the batcher is either pending in
\* its list or one row of its table, never both and never twice, and after a
\* flush_all that did not fail both lists are empty, so every item is one row.
C22_EveryItemWrittenOnce ==
    /\ (b_rows_valid (+) SeqToBag(b_valid)) (+)
           (b_rows_invalid (+) SeqToBag(b_invalid)) = SetToBag(1..b_n)
    /\ (b_ret.op = "flush_all" /\ ~b_ret.raised) =>
            /\ b_valid = <<>> /\ b_invalid = <<>>
            /\ b_rows_valid (+) b_rows_invalid = SetToBag(1..b_n)

\* flush_all wrote out items of both kinds, some of them buffered by adds
\* that came after an automatic flush
C22_Witness ==
    /\ b_ret.op = "flush_all" /\ ~b_ret.raised
    /\ b_n = MaxItems
    /\ b_valid = <<>> /\ b_invalid = <<>>
    /\ BagCardinality(b_rows_valid) >= MaxBatch
    /\ BagCardinality(b_rows_invalid) >= 1

\* ------------------------------------------------ claims on the importer
\* the rows of a file carry distinct non-empty json_ids
DistinctIds(rows) ==
    /\ \A k \in 1..Len(rows) : rows[k] # ""
    /\ \A j, k \in 1..Len(rows) : rows[j] = rows[k] => j = k

\* C23: no two stored Questions share a non-empty json_id, a record whose
\* json_id is already stored is counted as an "already exists" error and the
\* table is left as it was, and importing a file of N distinct json_ids into
\* a table that has none of them yields imported_count = N, error_count = 0,
\* importing it again imported_count = 0, error_count = N.
C23_ImportRejectsDuplicates ==
    /\ \A j, k \in 1..Len(i_store) :
        (i_store[j] = i_store[k] /\ i_store[j] # "") => j = k
    /\ (/\ i_result.op = "import_data"
        /\ i_result.exists
        /\ DistinctIds(i_result.rows)) =>
            IF \A k \in 1..Len(i_result.rows) :
                  \A j \in 1..Len(i_result.before) :
                      i_result.before[j] # i_result.rows[k]
            THEN /\ i_result.out.imported_count = Len(i_result.rows)
                 /\ i_result.out.error_count = 0
            ELSE (\A k \in 1..Len(i_result.rows) :
                    \E j \in 1..Len(i_result.before) :
                        i_result.before[j] = i_result.rows[k]) =>
                    /\ i_result.out.imported_count = 0
                    /\ i_result.out.error_count = Len(i_result.rows)
                    /\ i_store = i_result.before

\* C24: import_data on a source that does not exist returns success = false,
\* imported_count = 0, error_count = 1 and exactly one error string, and
\* leaves the store unchanged.
C24_MissingSourceResult ==
    (i_result.op = "import_data" /\ ~i_result.exists) =>
        /\ ~i_result.out.success
        /\ i_result.out.imported_count = 0
        /\ i_result.out.error_count = 1
        /\ Len(i_result.out.errors) = 1
        /\ i_store = i_result.before

\* ------------------------------------------ claims on loading questions
\* C25: the tasks of a run are questions that had no Response row when
\* loaded, of the category if one is given, each question at most once, all
\* of them when no limit is given, and at most limit of them otherwise.
C25_TasksAreUnansweredWithinLimit ==
    ld_call.op = "load" =>
        /\ \A k \in 1..Len(ld_call.tasks) :
            \E j \in 1..Len(ld_questions) :
                /\ ld_questions[j].id = ld_call.tasks[k]
                /\ ld_questions[j].responses = 0
                /\ (Truthy(ld_call.category) =>
                        ld_questions[j].category = ld_call.category)
        /\ \A j, k \in 1..Len(ld_call.tasks) :
            ld_call.tasks[j] = ld_call.tasks[k] => j = k
        /\ (ld_call.limit = NoLimit =>
                Len(ld_call.tasks) =
                    Len(unanswered(ld_questions, ld_call.category)))
        /\ (ld_call.limit # NoLimit => Len(ld_call.tasks) <= ld_call.limit)

\* --------------------------------------- claims on the migration scripts
\* C27: each migration script is idempotent: a run adds its column only to a
\* table that lacks it and touches nothing else, a later run of the same
\* script leaves every table's column set as it found it, and after a run
\* that succeeded the later run succeeds too, reporting for each of its
\* columns that it already exists.
C27_MigrationsIdempotent ==
    /\ \A k \in 1..Len(mg_hist) :
        LET run == mg_hist[k] IN
        \A t \in Tables :
            /\ run.after[t].exists = run.before[t].exists
            /\ run.before[t].columns \subseteq run.after[t].columns
            /\ \A c \in run.after[t].columns \ run.before[t].columns :
                [table |-> t, column |-> c] \in Range(targets(run.script))
    /\ \A j, k \in 1..Len(mg_hist) :
        (j < k /\ mg_hist[j].script = mg_hist[k].script) =>
            /\ mg_hist[k].after = mg_hist[k].before
            /\ (mg_hist[j].ok =>
                    /\ mg_hist[k].ok
                    /\ mg_hist[k].exists_reported =
                           Range(targets(mg_hist[k].script)))

\* a script added its columns and was then run again
C27_Witness ==
    \E j, k \in 1..Len(mg_hist) :
        /\ j < k
        /\ mg_hist[j].script = "add_thinking_columns"
        /\ mg_hist[k].script = "add_thinking_columns"
        /\ mg_hist[j].ok
        /\ mg_hist[j].after # mg_hist[j].before
        /\ mg_hist[k].ok

\* ----------------------------------------------- claims on the retry
\* the attempts of the last call whose operation returned, and those whose
\* scope also committed
OpReturned == {k \in 1..Len(rt_call.scopes) : rt_call.scopes[k].op_returned}
Committed == {k \in 1..Len(rt_call.scopes) : rt_call.scopes[k].committed}

\* C28 as stated: at most max_retries invocations, each in a scope of its
\* own that is rolled back on failure; the value of the first invocation
\* that returns is the result, its scope alone commits and no invocation
\* follows it; when every one of max_retries invocations fails the last
\* failure is re-raised.
C28_FirstReturnEndsRetry ==
    /\ Len(rt_call.scopes) <= rt_call.max_retries
    /\ \A k \in 1..Len(rt_call.scopes) :
        /\ rt_call.scopes[k].closed
        /\ (rt_call.scopes[k].raised => rt_call.scopes[k].rolled_back)
    /\ \A k \in OpReturned :
        /\ k = Len(rt_call.scopes)
        /\ rt_call.result = Returned(k - 1)
        /\ Committed = {k}
    /\ (OpReturned = {} /\ rt_call.max_retries >= 1 =>
            /\ Len(rt_call.scopes) = rt_call.max_retries
            /\ rt_call.result = Raised(rt_call.max_retries - 1))

\* C28, with an attempt counted as succeeding when its operation returns
\* and its scope commits: at most max_retries invocations, each in a scope
\* of its own that is closed, and rolled back when the operation or the
\* commit raises; the first attempt that succeeds is the last one made,
\* its value is the result and its scope the only one committed; when each
\* of max_retries >= 1 attempts fails the failure of the last is re-raised.
C28_RetryUntilCommitted ==
    /\ Len(rt_call.scopes) <= rt_call.max_retries
    /\ \A k \in 1..Len(rt_call.scopes) :
        /\ rt_call.scopes[k].closed
        /\ rt_call.scopes[k].raised = ~rt_call.scopes[k].committed
        /\ (rt_call.scopes[k].raised => rt_call.scopes[k].rolled_back)
        /\ (rt_call.scopes[k].committed => rt_call.scopes[k].op_returned)
    /\ \A k \in Committed :
        /\ k = Len(rt_call.scopes)
        /\ rt_call.result = Returned(k - 1)
        /\ Committed = {k}
    /\ (Committed = {} /\ rt_call.max_retries >= 1 =>
            /\ Len(rt_call.scopes) = rt_call.max_retries
            /\ rt_call.result = Raised(rt_call.max_retries - 1))
    /\ (rt_call.result.kind = "return" => Committed # {})

\* an operation returned, its commit failed, and the next attempt committed
C28_Witness ==
    /\ Len(rt_call.scopes) = 2
    /\ rt_call.scopes[1].op_returned
    /\ rt_call.scopes[1].rolled_back
    /\ rt_call.scopes[2].committed
    /\ rt_call.result = Returned(1)

\* --------------------------------- claims on the manager's failed result
\* the last provider the last call attempted and the error it raised
LastAttempted == m_call.out.log[Len(m_call.out.log)].provider
LastRaised == m_call.env[LastAttempted].msg

\* C29: a failed result returned after at least one attempt carries the
\* class (rate_limit, timeout, auth or general) and the text of the error
\* the last attempted provider raised, whatever earlier providers raised.
C29_FailureCarriesLastError ==
    (/\ m_call.op = "call"
     /\ ~m_call.out.raised
     /\ ~m_call.out.result.success
     /\ m_call.out.log # <<>>) =>
        /\ ~m_call.env[LastAttempted].ok
        /\ m_call.out.result.error_message = LastRaised
        /\ m_call.out.result.error_type =
            (IF LastRaised \cap {"rate limit", "too many requests", "rate_limit"} # {}
             THEN "rate_limit"
             ELSE IF LastRaised \cap {"timeout", "connection", "network"} # {}
             THEN "timeout"
             ELSE IF LastRaised \cap
                     {"authentication", "unauthorized", "forbidden", "api key"} # {}
             THEN "auth"
             ELSE "general")

\* two providers failed with errors of different classes and the result
\* carries the second's
C29_Witness ==
    /\ m_call.op = "call"
    /\ ~m_call.out.result.success
    /\ Len(m_call.out.log) = 4
    /\ m_call.env[m_call.out.log[1].provider].msg = {"network"}
    /\ LastRaised = {"forbidden"}
    /\ m_call.out.result.error_type = "auth"

\* C30: for each provider it attempts, the call makes exactly one acquire()
\* on that provider's limiter and then one generate_response on the
\* provider, whether acquire() returned true or false; no provider is
\* attempted twice.
C30_AcquireThenGenerate ==
    m_call.op = "call" =>
        LET log == m_call.out.log IN
        /\ Len(log) % 2 = 0
        /\ \A k \in 1..Len(log) :
            k % 2 = 1 =>
                /\ log[k].op = "acquire"
                /\ log[k].ok = m_call.env[log[k].provider].acq
                /\ log[k + 1].op = "generate"
                /\ log[k + 1].provider = log[k].provider
        /\ \A j, k \in 1..Len(log) :
            (j # k /\ log[j].provider = log[k].provider) => log[j].op # log[k].op

\* acquire() denied the call and generate_response was called and answered
C30_Witness ==
    /\ m_call.op = "call"
    /\ m_call.out.result.success
    /\ Len(m_call.out.log) = 2
    /\ m_call.out.log[1] = [provider |-> m_call.out.result.provider_name,
                            op |-> "acquire", ok |-> FALSE]
    /\ m_call.out.log[2] = [provider |-> m_call.out.result.provider_name,
                            op |-> "generate", ok |-> TRUE]

\* ---------------------------------------------- claims on the worker pool
\* the tasks whose status is PROCESSING
InProcessing == {o \in 1..Len(objs) : objs[o].status = PROCESSING}

\* C31: during an engine run at most batch_size tasks are PROCESSING, no
\* two workers hold the same question, no task is in the pending queue
\* twice, and no task is in the queue while it is PROCESSING.
C31_PoolBoundsProcessing ==
    /\ Cardinality(InProcessing) <= cfg_batch_size
    /\ Cardinality(q_processing) <= cfg_batch_size
    /\ \A v, w \in Workers :
        (v # w /\ w_task[v] # 0 /\ w_task[w] # 0) =>
            objs[w_task[v]].question_id # objs[w_task[w]].question_id
    /\ \A j, k \in 1..Len(q_queue) : j # k => q_queue[j] # q_queue[k]
    /\ \A k \in 1..Len(q_queue) :
        /\ objs[q_queue[k]].status # PROCESSING
        /\ objs[q_queue[k]].question_id \notin q_processing

\* the part of C31 that does not count tasks
C31_NoTaskTwice ==
    /\ \A v, w \in Workers :
        (v # w /\ w_task[v] # 0 /\ w_task[w] # 0) =>
            objs[w_task[v]].question_id # objs[w_task[w]].question_id
    /\ \A j, k \in 1..Len(q_queue) : j # k => q_queue[j] # q_queue[k]
    /\ \A k \in 1..Len(q_queue) :
        /\ objs[q_queue[k]].status # PROCESSING
        /\ objs[q_queue[k]].question_id \notin q_processing

\* ------------------------------------------------ claims on the registry
\* C32: remove_provider(name) returns true if name was registered and false
\* if it was not, and afterwards name is in neither the provider registry
\* nor the rate-limiter registry.
C32_RemoveReportsRemoval ==
    m_reg.op = "remove_provider" =>
        /\ m_reg.ret = (m_reg.name \in Range(m_reg.before))
        /\ m_reg.name \notin Range(m_providers)
        /\ m_reg.name \notin m_limiters

\* the part of C32 about the registries
C32_RemovedFromBoth ==
    /\ m_limiters = Range(m_providers)
    /\ m_reg.op = "remove_provider" =>
        /\ m_reg.name \notin Range(m_providers)
        /\ m_reg.name \notin m_limiters
        /\ m_reg.ret = FALSE

\* ------------------------------------- claims on dequeue and registration
\* C33: at every instant of an engine run every registered task is in the
\* pending queue, in the processing set, in the completed set or in the
\* failed set, and the monitoring loop never finds the queue empty and
\* cancels the workers while a worker holds a task it has not yet recorded
\* as PROCESSING.
C33_NoTaskInLimbo ==
    /\ [](\A q \in QIds :
            q_tasks[q] # 0 =>
                \/ q_tasks[q] \in Range(q_queue)
                \/ q \in q_processing \cup q_completed \cup q_failed)
    /\ [][(mon_pc = "sleep" /\ mon_pc' = "gather" /\ e_warnings' = e_warnings) =>
            \A w \in Workers : w_pc[w] # "dequeued"]_vars

\* ------------------------------------------ claims on the worker's errors
\* C34: every task a worker dequeues is marked COMPLETED or FAILED through
\* mark_completed, also when process_question or the statistics update
\* raises: a worker that is not cancelled lets go of a task only with the
\* task out of the processing set and COMPLETED or FAILED, so no task stays
\* PROCESSING with nobody working on it.
C34_WorkerMarksEveryTask ==
    [][\A w \in Workers :
        (w_pc[w] = "processing" /\ w_pc'[w] # "processing" /\ mon_pc' = mon_pc) =>
            LET q == objs[w_task[w]].question_id IN
            /\ q \notin q_processing'
            /\ objs'[q_tasks[q]].status \in {COMPLETED, FAILED}]_vars

\* ------------------------------------------ claims on the queue's sets
\* the ids with a registered task
Registered == {q \in QIds : q_tasks[q] # 0}

\* C35: after any sequence of queue operations the processing, completed
\* and failed sets are pairwise disjoint, an id is in each of them exactly
\* when its task has the matching status, a task is in the pending queue
\* exactly when it is PENDING, and the counts of get_stats add up:
\* pending + processing + completed + failed = total.
C35_SetsAgreeWithStatus ==
    /\ q_processing \cap q_completed = {}
    /\ q_processing \cap q_failed = {}
    /\ q_completed \cap q_failed = {}
    /\ \A q \in Registered :
        LET t == objs[q_tasks[q]] IN
        /\ q \in q_processing <=> t.status = PROCESSING
        /\ q \in q_completed <=> t.status = COMPLETED
        /\ q \in q_failed <=> t.status = FAILED
        /\ q_tasks[q] \in Range(q_queue) <=> t.status = PENDING
    /\ Len(q_queue) + Cardinality(q_processing) + Cardinality(q_completed)
         + Cardinality(q_failed) = Cardinality(Registered)

\* ------------------------------------------- claims on the rows of a call
\* C36: a call of process_question that returns commits exactly one row for
\* the task's question: a Response and nothing else when the result says
\* success, an InvalidResponse and nothing else when it does not; when the
\* insert of the Response fails the row is an InvalidResponse of type
\* processing_error.
C36_OneRowPerCall ==
    [][(wk_call.op = "none" /\ wk_call'.op = "call" /\ ~wk_call'.out.raised) =>
        LET q == wk_call'.task.question_id
            res == wk_call'.out.result IN
        IF res.success
        THEN /\ db_invalid' = db_invalid
             /\ db_responses' = db_responses (+)
                    SetToBag({[question_id |-> q,
                               provider_name |-> res.provider_name]})
        ELSE /\ db_responses' = db_responses
             /\ db_invalid' = db_invalid (+)
                    SetToBag({[question_id |-> q, error_type |-> res.error_type]})
             /\ (wk_call'.out.gen.success /\ ~wk_call'.out.validated
                 /\ wk_call'.db_error1 => res.error_type = "processing_error")]_vars

\* a provider answered, the insert of the Response failed, and the call
\* returned after storing the error row
C36_Witness ==
    /\ wk_call.op = "call"
    /\ ~wk_call.out.raised
    /\ wk_call.out.gen.success
    /\ wk_call.db_error1
    /\ ~wk_call.out.result.success
    /\ wk_call.out.result.error_type = "processing_error"
    /\ BagIn([question_id |-> wk_call.task.question_id,
              error_type |-> "processing_error"], db_invalid)

\* ------------------------------------------- claims on the run's counters
\* C37: in the ProcessingResult that process_questions returns no counter
\* exceeds the number of questions loaded: processed_questions <=
\* total_questions and successful_responses + failed_responses <=
\* total_questions, also after retries and with tasks left FAILED.
C37_CountersWithinTotal ==
    mon_pc = "done" =>
        /\ e_stats.processed_questions <= e_stats.total_questions
        /\ e_stats.successful_responses + e_stats.failed_responses
               <= e_stats.total_questions

\* ------------------------------------------- claims on the reported wait
\* the limiter's logs and the wait it reports now
LimiterLogs == [minute |-> rl_minute, hour |-> rl_hour]
WaitNow == calculate_wait_time(LimiterLogs, rl_now)

\* C38: calculate_wait_time() is 0 exactly when an acquire() at the same
\* instant would return true, and when it is w > 0 an acquire() made w
\* seconds later, with no request recorded in between, returns true.
C38_ReportedWaitSuffices ==
    /\ WaitNow >= 0
    /\ WaitNow = 0 <=> acquire_on(LimiterLogs, rl_now).val
    /\ WaitNow > 0 => acquire_on(LimiterLogs, rl_now + WaitNow).val

\* the parts of C38 that hold: the wait is 0 exactly when acquire() would
\* grant, and waiting it out is enough unless the hour limit is reached too
C38_WaitSufficesForMinute ==
    /\ WaitNow >= 0
    /\ WaitNow = 0 <=> acquire_on(LimiterLogs, rl_now).val
    /\ (WaitNow > 0
        /\ ~limit_reached(bucket_requests(rl_hour, rl_now + WaitNow, HOUR), cfg_rph))
            => acquire_on(LimiterLogs, rl_now + WaitNow).val

\* --------------------------------------- claims on a flush that fails
\* C39: when the transaction of a flush fails, the error reaches the caller,
\* no row of that batch is in the table and the pending list is as it was
\* (with the item just appended), so the next flush of the list takes the
\* same items; a list is emptied only in a step that adds exactly its items
\* to its table.
C39_FailedFlushKeepsItems ==
    [][/\ (b_n' = b_n + 1 /\ b_ret'.op = "add_valid" /\ b_ret'.raised) =>
            /\ b_valid' = Append(b_valid, b_ret'.item)
            /\ b_rows_valid' = b_rows_valid
       /\ (b_n' = b_n + 1 /\ b_ret'.op = "add_invalid" /\ b_ret'.raised) =>
            /\ b_invalid' = Append(b_invalid, b_ret'.item)
            /\ b_rows_invalid' = b_rows_invalid
       /\ (b_n' = b_n /\ b_ret'.op = "flush_all" /\ b_ret'.raised) =>
            /\ b_invalid' = b_invalid
            /\ b_rows_invalid' = b_rows_invalid
            /\ \/ b_valid' = b_valid /\ b_rows_valid' = b_rows_valid
               \/ /\ b_invalid # <<>>
                  /\ b_valid' = <<>>
                  /\ b_rows_valid' = b_rows_valid (+) SeqToBag(b_valid)
       /\ (Len(b_valid') <= Len(b_valid) /\ b_valid' # b_valid) =>
            /\ b_valid' = <<>>
            /\ b_rows_valid' (+) SeqToBag(b_valid') (+) b_rows_invalid'
                   (+) SeqToBag(b_invalid') = SetToBag(1..b_n')
            /\ BagCardinality(b_rows_valid') >=
                   BagCardinality(b_rows_valid) + Len(b_valid)
       /\ (Len(b_invalid') <= Len(b_invalid) /\ b_invalid' # b_invalid) =>
            /\ b_invalid' = <<>>
            /\ BagCardinality(b_rows_invalid') >=
                   BagCardinality(b_rows_invalid) + Len(b_invalid)]_vars

\* a full list whose flush failed is still pending, past the batch size,
\* and none of its items is in the table
C39_Witness ==
    /\ b_ret.op = "add_valid" /\ b_ret.raised
    /\ Len(b_valid) > b_batch_size
    /\ b_rows_valid = EmptyBag

\* ------------------------------------------------ claims on stopping a run
\* C40: after stop_processing() the tasks in flight finish and the run then
\* returns without waiting for the ceiling, also with tasks still pending:
\* when the stop was given and every worker has ended, the monitoring loop
\* is not left sleeping on a queue that is_empty() reports as not empty.
C40_StopEndsRun ==
    (/\ e_stop
     /\ mon_pc = "sleep"
     /\ \A w \in Workers : w_pc[w] = "exited") => is_empty

\* the part of C40 about the tasks in flight: a worker that leaves its loop
\* after the stop, without an exception, has marked its task
C40_InFlightTasksFinish ==
    [][\A w \in Workers :
        (e_stop /\ w_pc[w] = "processing" /\ w_pc'[w] = "exited"
         /\ mon_pc' = mon_pc) =>
            objs'[w_task[w]].status \in {COMPLETED, FAILED}]_vars

====
